---- MODULE Spec2Model ----
(***************************************************************************)
(* A model of masal-makinesi: the content guard (packages/prompts guard),  *)
(* the response validator, the prompt builder, and the POST /api/story     *)
(* handler with its two-attempt generation loop.                           *)
(*                                                                         *)
(* Strings are sequences of characters.  A character is a one-character    *)
(* TLA+ string; a character outside ASCII is named by its code point       *)
(* (U015F is U+015F, s with cedilla).                                      *)
(***************************************************************************)
EXTENDS Integers, Sequences, FiniteSets, TLC

(***************************************************************************)
(* Characters                                                              *)
(***************************************************************************)
U00C7 == "U+00C7"
U00D6 == "U+00D6"
U00DC == "U+00DC"
U00E2 == "U+00E2"
U00E7 == "U+00E7"
U00F6 == "U+00F6"
U00FC == "U+00FC"
U011E == "U+011E"
U011F == "U+011F"
U0130 == "U+0130"
U0131 == "U+0131"
U015E == "U+015E"
U015F == "U+015F"
U0060 == "U+0060"
U0307 == "U+0307"
U201E == "U+201E"

\* The characters of an ASCII string literal, as a sequence.
Chars(str) == [i \in 1..Len(str) |-> SubSeq(str, i, i)]

Range(s) == {s[i] : i \in DOMAIN s}

\* F(v), with v evaluated once whatever use F makes of it.
Apply(F(_), v) == CHOOSE r \in {F(x) : x \in {v}} : TRUE

UpperAZ == Chars("ABCDEFGHIJKLMNOPQRSTUVWXYZ")
LowerAZ == Chars("abcdefghijklmnopqrstuvwxyz")
Digits == Chars("0123456789")

\* ECMAScript WhiteSpace and LineTerminator characters the inputs use (\s).
WhiteSpace == {" ", "\n", "\t"}

\* [.!?] of the sentence splits.
SentenceEnd == {".", "!", "?"}

\* \w of an ECMAScript regular expression without the u flag.
WordChar == Range(UpperAZ) \cup Range(LowerAZ) \cup Range(Digits) \cup {"_"}

\* String.prototype.toLowerCase, character by character: the Unicode default
\* case conversion, which is not the Turkish one.  U+0130 lowers to two code
\* units (i, U+0307) and I lowers to i, never to U+0131.
LowerCaseMap ==
    [c \in Range(UpperAZ) |-> <<LowerAZ[CHOOSE i \in 1..26 : UpperAZ[i] = c]>>]
    @@ (U00C7 :> <<U00E7>>) @@ (U00D6 :> <<U00F6>>) @@ (U00DC :> <<U00FC>>)
    @@ (U011E :> <<U011F>>) @@ (U015E :> <<U015F>>) @@ (U0130 :> <<"i", U0307>>)

RECURSIVE FlatMap(_, _, _, _)
FlatMap(s, map, lo, hi) ==
    IF lo > hi THEN <<>>
    ELSE IF lo = hi THEN (IF s[lo] \in DOMAIN map THEN map[s[lo]] ELSE <<s[lo]>>)
    ELSE LET mid == (lo + hi) \div 2
         IN  FlatMap(s, map, lo, mid) \o FlatMap(s, map, mid + 1, hi)

toLowerCase(s) == FlatMap(s, LowerCaseMap, 1, Len(s))

\* Canonicalize of a regular expression with the i flag (no u flag): the
\* single-character upper case, except that a non-ASCII character is never
\* mapped to an ASCII one (so U+0131 stays, and matches neither i nor I).
CanonMap ==
    [c \in Range(LowerAZ) |-> UpperAZ[CHOOSE i \in 1..26 : LowerAZ[i] = c]]
    @@ (U00E7 :> U00C7) @@ (U00F6 :> U00D6) @@ (U00FC :> U00DC)
    @@ (U011F :> U011E) @@ (U015F :> U015E)

Canonicalize(c) == IF c \in DOMAIN CanonMap THEN CanonMap[c] ELSE c

\* String.prototype.includes
Includes(s, t) ==
    \E i \in 1..(Len(s) - Len(t) + 1) : \A j \in 1..Len(t) : s[i + j - 1] = t[j]

\* The pieces of s[lo..hi] cut at every single separator character.
RECURSIVE SplitRange(_, _, _, _)
SplitRange(s, seps, lo, hi) ==
    IF lo > hi THEN << <<>> >>
    ELSE IF lo = hi
         THEN (IF s[lo] \in seps THEN << <<>>, <<>> >> ELSE << <<s[lo]>> >>)
    ELSE LET mid == (lo + hi) \div 2
             L == SplitRange(s, seps, lo, mid)
             R == SplitRange(s, seps, mid + 1, hi)
         IN  SubSeq(L, 1, Len(L) - 1) \o << L[Len(L)] \o R[1] >> \o Tail(R)

\* String.prototype.split(/[seps]+/): a run of separators cuts once, so the
\* empty pieces between adjacent separators vanish, while a separator at the
\* very start or end still leaves an empty first or last piece ("" splits
\* into one empty piece).
Split(s, seps) ==
    LET p == SplitRange(s, seps, 1, Len(s))
        n == Len(p)
    IN  IF n <= 2 THEN p
        ELSE <<p[1]>> \o SelectSeq(SubSeq(p, 2, n - 1), LAMBDA w : w # <<>>)
                      \o <<p[n]>>

\* s.trim().length > 0
NonBlank(s) == \E i \in DOMAIN s : s[i] \notin WhiteSpace

\* Array.prototype.join
RECURSIVE JoinRange(_, _, _, _)
JoinRange(parts, sep, lo, hi) ==
    IF lo > hi THEN <<>>
    ELSE IF lo = hi THEN parts[lo]
    ELSE LET mid == (lo + hi) \div 2
         IN  JoinRange(parts, sep, lo, mid) \o sep \o JoinRange(parts, sep, mid + 1, hi)

Join(parts, sep) == JoinRange(parts, sep, 1, Len(parts))

\* n copies of s, one after the other (builds the long inputs).
RECURSIVE Repeat(_, _)
Repeat(s, n) ==
    IF n <= 0 THEN <<>>
    ELSE IF n = 1 THEN s
    ELSE LET r == Repeat(s, n \div 2)
         IN  IF n % 2 = 0 THEN r \o r ELSE r \o r \o s

(***************************************************************************)
(* Content guard: block-list and regular-expression rules                  *)
(***************************************************************************)
DEFAULT_BLOCKED_TERMS ==
    << \* Violence & Fear
       <<U015F>> \o Chars("iddet"), Chars("kan"), <<U00F6>> \o Chars("l") \o <<U00FC>> \o Chars("m"), <<U00F6>> \o Chars("ld") \o <<U00FC>> \o Chars("r"), Chars("kavga"), Chars("sava") \o <<U015F>>,
       Chars("silah"), Chars("b") \o <<U0131, U00E7>> \o Chars("ak"), Chars("korku"), Chars("korkun") \o <<U00E7>>, Chars("deh") \o <<U015F>> \o Chars("et"), Chars("kabus"),
       Chars("k") \o <<U00F6>> \o Chars("t") \o <<U00FC>> \o Chars(" r") \o <<U00FC>> \o Chars("ya"), Chars("canavar"),
       \* Inappropriate Content
       Chars("alkol"), Chars("sigara"), Chars("uyu") \o <<U015F>> \o Chars("turucu"), Chars("kumar"), Chars("para"), Chars("zengin"),
       Chars("fakir"), Chars("yoksul"), Chars("s") \o <<U0131>> \o Chars("n") \o <<U0131>> \o Chars("f"), Chars("ayr") \o <<U0131>> \o Chars("mc") \o <<U0131>> \o Chars("l") \o <<U0131>> \o Chars("k"), Chars("nefret"), <<U00F6>> \o Chars("fke"),
       Chars("k") \o <<U0131>> \o Chars("zg") \o <<U0131>> \o Chars("n"),
       \* Adult Themes
       Chars("a") \o <<U015F>> \o Chars("k"), Chars("sevgili"), <<U00F6>> \o Chars("p") \o <<U00FC>> \o Chars("c") \o <<U00FC>> \o Chars("k"), Chars("evlilik"), Chars("bo") \o <<U015F>> \o Chars("anma"),
       Chars("cinsellik"), Chars("dokunma"), Chars("gizli"), Chars("yasak"), Chars("mahrem"),
       <<U00F6>> \o Chars("zel yer"),
       \* Negative Emotions
       Chars("nefret"), Chars("i") \o <<U011F>> \o Chars("ren") \o <<U00E7>>, Chars("tiksinti"), Chars("ac") \o <<U0131>>, Chars("a") \o <<U011F>> \o Chars("lama"), Chars("g") \o <<U00F6>> \o Chars("zya") \o <<U015F, U0131>>,
       <<U00FC>> \o Chars("z") \o <<U00FC>> \o Chars("nt") \o <<U00FC>>, Chars("depresyon"), Chars("kayg") \o <<U0131>>, Chars("stres"), Chars("endi") \o <<U015F>> \o Chars("e"),
       \* Religious/Political
       Chars("din"), Chars("tanr") \o <<U0131>>, Chars("allah"), Chars("dua"), Chars("namaz"), Chars("kilise"),
       Chars("camii"), Chars("politika"), Chars("h") \o <<U00FC>> \o Chars("k") \o <<U00FC>> \o Chars("met"), Chars("ba") \o <<U015F>> \o Chars("kan"), Chars("se") \o <<U00E7>> \o Chars("im"), Chars("parti"),
       \* Scary Creatures
       <<U015F>> \o Chars("eytan"), Chars("cin"), Chars("hayalet"), Chars("zombi"), Chars("vampir"), Chars("kurt adam"),
       Chars("cad") \o <<U0131>>, Chars("b") \o <<U00FC>> \o Chars("y") \o <<U00FC>> \o Chars("c") \o <<U00FC>>, Chars("lanet"), Chars("kara b") \o <<U00FC>> \o Chars("y") \o <<U00FC>>, Chars("b") \o <<U00FC>> \o Chars("y") \o <<U00FC>> >>

\* a followed by one space and b, for every a of A and b of B.
SpacedPairs(A, B) == {a \o <<" ">> \o b : a \in A, b \in B}

\* A rule's pattern is one of three shapes:
\*   classRun      /[class]{atLeast,}/g
\*   repeatedWord  /\b(\w+)(\s+\1){2,}\b/gi
\*   literals      /(alt|alt|...)/gi, an alternation of literal strings
DEFAULT_GUARD_RULES ==
    << [id |-> "excessive_caps",
        description |-> Chars("Excessive capital letters"),
        pattern |-> [kind |-> "classRun",
                     class |-> Range(UpperAZ) \cup
                               {U00C7, U011E, U0131, U0130, U00D6, U015E, U00DC},
                     atLeast |-> 5],
        severity |-> "warn"],
       [id |-> "repetitive_words",
        description |-> Chars("Repetitive words (same word 3+ times)"),
        pattern |-> [kind |-> "repeatedWord"],
        severity |-> "warn"],
       [id |-> "violence_keywords",
        description |-> Chars("Violence-related keywords"),
        pattern |-> [kind |-> "literals",
                     alts |-> {Chars("vurmak"), Chars("d") \o <<U00F6>> \o Chars("vmek"), Chars("sald") \o <<U0131>> \o Chars("rmak"), Chars("zarar"),
                               Chars("yaralamak"), Chars("ac") \o <<U0131>> \o Chars(" vermek")}],
        severity |-> "block"],
       [id |-> "fear_keywords",
        description |-> Chars("Fear and scary content"),
        pattern |-> [kind |-> "literals",
                     alts |-> {Chars("korkutucu"), Chars("deh") \o <<U015F>> \o Chars("etli"), <<U00FC>> \o Chars("rk") \o <<U00FC>> \o Chars("t") \o <<U00FC>> \o Chars("c") \o <<U00FC>>,
                               Chars("karabasan"), Chars("k") \o <<U00E2>> \o Chars("bus")}],
        severity |-> "block"],
       [id |-> "inappropriate_contact",
        description |-> Chars("Inappropriate physical contact"),
        pattern |-> [kind |-> "literals",
                     alts |-> SpacedPairs({Chars("dokunmak"), Chars("ellemek"), <<U00F6>> \o Chars("pmek"),
                                           Chars("sar") \o <<U0131>> \o Chars("lmak")},
                                          {Chars("gizli"), <<U00F6>> \o Chars("zel"), Chars("yasak")})],
        severity |-> "block"],
       [id |-> "negative_emotions_excessive",
        description |-> Chars("Excessive negative emotions"),
        pattern |-> [kind |-> "literals",
                     alts |-> {<<U00E7>> \o Chars("ok ") \o <<U00FC>> \o Chars("zg") \o <<U00FC>> \o Chars("n"), <<U00E7>> \o Chars("ok korkuyor"), <<U00E7>> \o Chars("ok a") \o <<U011F>> \o Chars("l") \o <<U0131>> \o Chars("yor"),
                               Chars("deh") \o <<U015F>> \o Chars("ete kap") \o <<U0131>> \o Chars("lm") \o <<U0131, U015F>>}],
        severity |-> "warn"] >>

DEFAULT_CONFIG ==
    [blockedTerms |-> DEFAULT_BLOCKED_TERMS,
     patterns |-> DEFAULT_GUARD_RULES,
     maxSensitiveReferences |-> 1,
     enabledGuards |-> {"blocked_terms", "regex_patterns", "length_check",
                        "repetition_check"}]

\* The literal t matches at position i of s, characters compared as the i flag
\* compares them.
LiteralAt(s, i, t) ==
    /\ i + Len(t) - 1 <= Len(s)
    /\ \A j \in 1..Len(t) : Canonicalize(s[i + j - 1]) = Canonicalize(t[j])

\* The first index at or after i that holds no white space (Len(s) + 1 if none).
RECURSIVE SkipSpace(_, _)
SkipSpace(s, i) ==
    IF i <= Len(s) /\ s[i] \in WhiteSpace THEN SkipSpace(s, i + 1) ELSE i

\* The first index at or after i that holds no \w character.
RECURSIVE SkipWord(_, _)
SkipWord(s, i) ==
    IF i <= Len(s) /\ s[i] \in WordChar THEN SkipWord(s, i + 1) ELSE i

\* /\b(\w+)(\s+\1){2,}\b/gi matches with the group starting at i: the group is
\* followed by white space, so it ends where its word ends; two repetitions
\* suffice, and the match ends at a word boundary.
RepeatedWordAt(s, i) ==
    /\ s[i] \in WordChar
    /\ (i = 1 \/ s[i - 1] \notin WordChar)
    /\ LET e == SkipWord(s, i)
           w == SubSeq(s, i, e - 1)
           r1 == SkipSpace(s, e)
           r2 == SkipSpace(s, r1 + Len(w))
           q == r2 + Len(w)
       IN  /\ r1 > e
           /\ LiteralAt(s, r1, w)
           /\ r2 > r1 + Len(w)
           /\ LiteralAt(s, r2, w)
           /\ (q > Len(s) \/ s[q] \notin WordChar)

\* content.match(rule.pattern) found at least one match.
HasMatch(content, pattern) ==
    CASE pattern.kind = "classRun" ->
           \E i \in 1..(Len(content) - pattern.atLeast + 1) :
               \A j \in 0..(pattern.atLeast - 1) : content[i + j] \in pattern.class
      [] pattern.kind = "repeatedWord" ->
           \E i \in 1..Len(content) : RepeatedWordAt(content, i)
      [] pattern.kind = "literals" ->
           \E t \in pattern.alts : \E i \in 1..(Len(content) - Len(t) + 1) :
               LiteralAt(content, i, t)

\* The sub-checks return {safe, issues}; the confidence, a float that no
\* decision reads, is left out.
FoundTerms(lowerContent, blockedTerms) ==
    SelectSeq(blockedTerms, LAMBDA term : Includes(lowerContent, toLowerCase(term)))

checkBlockedTerms(content, blockedTerms) ==
    Apply(LAMBDA foundTerms :
             [safe |-> Len(foundTerms) = 0,
              issues |-> [i \in 1..Len(foundTerms) |->
                             Chars("Blocked term found: ") \o foundTerms[i]]],
          Apply(LAMBDA lowerContent : FoundTerms(lowerContent, blockedTerms),
                toLowerCase(content)))

\* For comparison: a scan that is unsafe as soon as any rule matches.
AnyMatchUnsafe(content, patterns) ==
    Apply(LAMBDA matched :
             [safe |-> Len(matched) = 0,
              issues |-> [i \in 1..Len(matched) |->
                             matched[i].description \o Chars(": # matches found")]],
          SelectSeq(patterns, LAMBDA rule : HasMatch(content, rule.pattern)))

\* An issue reads "<description>: <n> matches found"; the decimal count n is
\* written as the one character "#".
checkRegexPatterns(content, patterns) ==
    Apply(LAMBDA matched :
             LET blockingIssues ==
                     Len(SelectSeq(matched, LAMBDA rule : rule.severity = "block"))
             IN  [safe |-> blockingIssues = 0,
                  issues |-> [i \in 1..Len(matched) |->
                                 matched[i].description \o Chars(": # matches found")]],
          SelectSeq(patterns, LAMBDA rule : HasMatch(content, rule.pattern)))

MinGuardWords == 50
MaxGuardWords == 1000
MinSentences == 3

LengthIssues(wordCount, sentences) ==
       (IF wordCount < MinGuardWords THEN <<Chars("Content too short")>> ELSE <<>>)
    \o (IF wordCount > MaxGuardWords THEN <<Chars("Content too long")>> ELSE <<>>)
    \o (IF Len(sentences) < MinSentences
        THEN <<Chars("Content lacks proper structure")>> ELSE <<>>)

checkContentLength(content) ==
    Apply(LAMBDA issues : [safe |-> Len(issues) = 0, issues |-> issues],
          Apply(LAMBDA wordCount :
                   LengthIssues(wordCount,
                                SelectSeq(Split(content, SentenceEnd), NonBlank)),
                Len(Split(content, WhiteSpace))))

\* Names every object inherits from Object.prototype.  wordCount[word] reads
\* such a name as a function, not as undefined, so the count kept for it is a
\* string and never compares greater than a number.
ObjectPrototypeNames ==
    {Chars("constructor"), Chars("toString"), Chars("valueOf"), Chars("toLocaleString"),
     Chars("hasOwnProperty"), Chars("isPrototypeOf"), Chars("propertyIsEnumerable"),
     Chars("__proto__"), Chars("__defineGetter__"), Chars("__defineSetter__"),
     Chars("__lookupGetter__"), Chars("__lookupSetter__")}

MeaningfulLen == 3
RepeatCount == 5
RepeatPercent == 10

\* The words (longer than 3) in the order they first occur.
FirstOccurrences(words) ==
    SelectSeq([i \in 1..Len(words) |->
                  IF Len(words[i]) > MeaningfulLen
                     /\ \A j \in 1..(i - 1) : words[j] # words[i]
                  THEN words[i] ELSE <<>>],
              LAMBDA w : w # <<>>)

Occurrences(words, w) == Cardinality({i \in 1..Len(words) : words[i] = w})

\* The words whose frequency > 0.1 && count > 5.
Excessive(words) ==
    SelectSeq(FirstOccurrences(words),
              LAMBDA w : /\ w \notin ObjectPrototypeNames
                         /\ \E count \in {Occurrences(words, w)} :
                               /\ count * 100 > RepeatPercent * Len(words)
                               /\ count > RepeatCount)

checkRepetition(content) ==
    Apply(LAMBDA excessive :
             [safe |-> Len(excessive) = 0,
              issues |-> [i \in 1..Len(excessive) |->
                             Chars("Excessive repetition of word: ") \o excessive[i]]],
          Apply(Excessive, Split(toLowerCase(content), WhiteSpace)))

\* categories.add in the order of the code; a Set keeps first insertions.
AddCategory(cats, c) == IF c \in Range(cats) THEN cats ELSE Append(cats, c)

CategoriesOfIssue(cats, issue) ==
    LET c1 == IF Includes(issue, Chars("Blocked term"))
              THEN AddCategory(cats, "inappropriate_content") ELSE cats
        c2 == IF Includes(issue, Chars("violence")) THEN AddCategory(c1, "violence") ELSE c1
        c3 == IF Includes(issue, Chars("fear")) \/ Includes(issue, Chars("scary"))
              THEN AddCategory(c2, "fear") ELSE c2
        c4 == IF Includes(issue, Chars("repetition"))
              THEN AddCategory(c3, "quality_issues") ELSE c3
    IN  IF Includes(issue, Chars("length")) \/ Includes(issue, Chars("structure"))
        THEN AddCategory(c4, "format_issues") ELSE c4

RECURSIVE CategoriesFrom(_, _)
CategoriesFrom(cats, issues) ==
    IF issues = <<>> THEN cats
    ELSE CategoriesFrom(CategoriesOfIssue(cats, Head(issues)), Tail(issues))

extractCategories(issues) == CategoriesFrom(<<>>, issues)

extractBlockedTerms(content, blockedTerms) ==
    Apply(LAMBDA lowerContent : FoundTerms(lowerContent, blockedTerms),
          toLowerCase(content))

\* The results of the enabled guards, in the order they run.
GuardResults(content, config) ==
       (IF "blocked_terms" \in config.enabledGuards
        THEN <<checkBlockedTerms(content, config.blockedTerms)>> ELSE <<>>)
    \o (IF "regex_patterns" \in config.enabledGuards
        THEN <<checkRegexPatterns(content, config.patterns)>> ELSE <<>>)
    \o (IF "length_check" \in config.enabledGuards
        THEN <<checkContentLength(content)>> ELSE <<>>)
    \o (IF "repetition_check" \in config.enabledGuards
        THEN <<checkRepetition(content)>> ELSE <<>>)

checkContentSafety(content, config) ==
    Apply(LAMBDA results :
             LET allIssues == Join([i \in 1..Len(results) |-> results[i].issues], <<>>)
             IN  [safe |-> \A i \in 1..Len(results) : results[i].safe,
                  categories |-> extractCategories(allIssues),
                  blockedTerms |-> extractBlockedTerms(content, config.blockedTerms)],
          GuardResults(content, config))

\* For comparison: a pre-check that runs every guard of the default
\* configuration.
CheckEverything(input) == checkContentSafety(input, DEFAULT_CONFIG)

preCheckUserInput(input) ==
    checkContentSafety(input,
        [blockedTerms |-> DEFAULT_BLOCKED_TERMS,
         patterns |-> SelectSeq(DEFAULT_GUARD_RULES, LAMBDA rule : rule.severity = "block"),
         maxSensitiveReferences |-> 0,
         enabledGuards |-> {"blocked_terms", "regex_patterns"}])

quickSafetyCheck(content) == checkContentSafety(content, DEFAULT_CONFIG).safe

(***************************************************************************)
(* Shared enums                                                            *)
(***************************************************************************)
StoryTheme ==
    {Chars("adventure"), Chars("friendship"), Chars("learning"), Chars("fantasy"), Chars("animals"),
     Chars("family"), Chars("nature"), Chars("music")}

SHORT == Chars("short")
MEDIUM == Chars("medium")
LONG == Chars("long")
StoryLength == {SHORT, MEDIUM, LONG}

(***************************************************************************)
(* JSON.  A text is read as its sequence of lexical tokens:                *)
(*   [k |-> "punct", v |-> c]     one of { } [ ] : ,                       *)
(*   [k |-> "string", v |-> s]    a string literal with content s          *)
(*   [k |-> "number", v |-> n, half |-> b]   the number n, or n + 0.5      *)
(*   [k |-> "word", v |-> w]      true, false, null                        *)
(*   [k |-> "junk", v |-> s]      anything that is no JSON token           *)
(* A parsed value is tagged with its type: [t |-> "string", v |-> s],      *)
(* [t |-> "number", v |-> n, half |-> b], [t |-> "boolean", v |-> b],      *)
(* [t |-> "null"], [t |-> "array", v |-> <<values>>], and                  *)
(* [t |-> "object", v |-> f] with f a function from the keys.              *)
(***************************************************************************)
Punct(c) == [k |-> "punct", v |-> c]
StrTok(s) == [k |-> "string", v |-> s]
NumTok(n) == [k |-> "number", v |-> n, half |-> FALSE]
HalfTok(n) == [k |-> "number", v |-> n, half |-> TRUE]
WordTok(w) == [k |-> "word", v |-> w]
JunkTok(s) == [k |-> "junk", v |-> s]

JString(s) == [t |-> "string", v |-> s]
JNumber(n) == [t |-> "number", v |-> n, half |-> FALSE]
JNull == [t |-> "null"]

IsPunct(toks, i, c) == i <= Len(toks) /\ toks[i].k = "punct" /\ toks[i].v = c

ParseFail == [ok |-> FALSE]
Parsed(value, next) == [ok |-> TRUE, value |-> value, next |-> next]

\* f with key set to value (a repeated key keeps the last value).
SetKey(f, key, value) == [x \in DOMAIN f \cup {key} |-> IF x = key THEN value ELSE f[x]]

RECURSIVE ParseValue(_, _), ParseMembers(_, _, _), ParseElements(_, _, _)

\* The value that starts at token i.
ParseValue(toks, i) ==
    IF i > Len(toks) THEN ParseFail
    ELSE LET tok == toks[i] IN
         CASE tok.k = "string" -> Parsed(JString(tok.v), i + 1)
           [] tok.k = "number" ->
                  Parsed([t |-> "number", v |-> tok.v, half |-> tok.half], i + 1)
           [] tok.k = "word" ->
                  Parsed(IF tok.v = "null" THEN JNull
                         ELSE [t |-> "boolean", v |-> (tok.v = "true")], i + 1)
           [] tok.k = "punct" /\ tok.v = "{" ->
                  IF IsPunct(toks, i + 1, "}")
                  THEN Parsed([t |-> "object", v |-> <<>>], i + 2)
                  ELSE ParseMembers(toks, i + 1, <<>>)
           [] tok.k = "punct" /\ tok.v = "[" ->
                  IF IsPunct(toks, i + 1, "]")
                  THEN Parsed([t |-> "array", v |-> <<>>], i + 2)
                  ELSE ParseElements(toks, i + 1, <<>>)
           [] OTHER -> ParseFail

\* The members of an object from token i on, f holding those already read.
ParseMembers(toks, i, f) ==
    IF ~(i <= Len(toks) /\ toks[i].k = "string" /\ IsPunct(toks, i + 1, ":"))
    THEN ParseFail
    ELSE LET m == ParseValue(toks, i + 2) IN
         IF ~m.ok THEN ParseFail
         ELSE LET g == SetKey(f, toks[i].v, m.value) IN
              IF IsPunct(toks, m.next, "}")
              THEN Parsed([t |-> "object", v |-> g], m.next + 1)
              ELSE IF IsPunct(toks, m.next, ",")
                   THEN ParseMembers(toks, m.next + 1, g)
                   ELSE ParseFail

\* The elements of an array from token i on, a holding those already read.
ParseElements(toks, i, a) ==
    LET m == ParseValue(toks, i) IN
    IF ~m.ok THEN ParseFail
    ELSE IF IsPunct(toks, m.next, "]")
         THEN Parsed([t |-> "array", v |-> Append(a, m.value)], m.next + 1)
         ELSE IF IsPunct(toks, m.next, ",")
              THEN ParseElements(toks, m.next + 1, Append(a, m.value))
              ELSE ParseFail

\* For comparison: a reader that stops after the first value of a text.
ParsePrefix(text) ==
    LET m == ParseValue(text, 1)
    IN  IF m.ok THEN [ok |-> TRUE, value |-> m.value] ELSE [ok |-> FALSE]

\* JSON.parse: one value and nothing after it; anything else throws.
JSONparse(text) ==
    LET m == ParseValue(text, 1)
    IN  IF m.ok /\ m.next = Len(text) + 1
        THEN [ok |-> TRUE, value |-> m.value]
        ELSE [ok |-> FALSE]

(***************************************************************************)
(* Response validation                                                     *)
(***************************************************************************)
Error(field, message, code) == [field |-> field, message |-> message, code |-> code]

\* An issue of the schema: the path of the field and the message.
Issue(path, message) == [path |-> path, message |-> message]

\* "Required" for a missing key, else "Expected <type>, received <type>".
InvalidType(expected, obj, key) ==
    IF key \notin DOMAIN obj THEN Chars("Required")
    ELSE Chars("Expected ") \o Chars(expected) \o Chars(", received ") \o Chars(obj[key].t)

HasType(obj, key, type) == key \in DOMAIN obj /\ obj[key].t = type

TitleMin == 5
TitleMax == 100
ContentMin == 50
ContentMax == 3000
WordCountMin == 50
WordCountMax == 800

\* For comparison: a string check that reports the first defect only.
FirstStringIssue(obj, key, lo, tooShort, hi, tooLong, blank) ==
    IF ~HasType(obj, key, "string")
    THEN <<Issue(key, InvalidType("string", obj, key))>>
    ELSE IF Len(obj[key].v) < lo THEN <<Issue(key, tooShort)>>
    ELSE IF Len(obj[key].v) > hi THEN <<Issue(key, tooLong)>>
    ELSE IF ~NonBlank(obj[key].v) THEN <<Issue(key, blank)>>
    ELSE <<>>

\* z.string().min(lo, tooShort).max(hi, tooLong).refine(non-blank, blank):
\* a value of another type aborts with one issue; on a string every check
\* runs, the refinement too.
StringIssues(obj, key, lo, tooShort, hi, tooLong, blank) ==
    IF ~HasType(obj, key, "string")
    THEN <<Issue(key, InvalidType("string", obj, key))>>
    ELSE LET val == obj[key].v IN
            (IF Len(val) < lo THEN <<Issue(key, tooShort)>> ELSE <<>>)
         \o (IF Len(val) > hi THEN <<Issue(key, tooLong)>> ELSE <<>>)
         \o (IF ~NonBlank(val) THEN <<Issue(key, blank)>> ELSE <<>>)

\* z.number().min(50).max(800).int()
NumberIssues(obj, key) ==
    IF ~HasType(obj, key, "number")
    THEN <<Issue(key, InvalidType("number", obj, key))>>
    ELSE LET n == obj[key] IN
            (IF n.v < WordCountMin THEN <<Issue(key, Chars("Kelime say") \o <<U0131>> \o Chars("s") \o <<U0131>> \o Chars(" ") \o <<U00E7>> \o Chars("ok az"))>> ELSE <<>>)
         \o (IF n.v > WordCountMax \/ (n.v = WordCountMax /\ n.half)
             THEN <<Issue(key, Chars("Kelime say") \o <<U0131>> \o Chars("s") \o <<U0131>> \o Chars(" ") \o <<U00E7>> \o Chars("ok fazla"))>> ELSE <<>>)
         \o (IF n.half THEN <<Issue(key, Chars("Kelime say") \o <<U0131>> \o Chars("s") \o <<U0131>> \o Chars(" tam say") \o <<U0131>> \o Chars(" olmal") \o <<U0131>>)>> ELSE <<>>)

\* z.nativeEnum and z.enum with an errorMap: one issue, always that message.
EnumIssues(obj, key, members, message) ==
    IF HasType(obj, key, "string") /\ obj[key].v \in members THEN <<>>
    ELSE <<Issue(key, message)>>

\* StoryResponseSchema.safeParse: the issues in the order of the schema's
\* keys; unknown keys are dropped from the data.
StoryResponseSchema(parsed) ==
    IF parsed.t # "object"
    THEN [success |-> FALSE,
          issues |-> <<Issue(<<>>, Chars("Expected object, received ") \o Chars(parsed.t))>>]
    ELSE LET obj == parsed.v
             issues ==
                 StringIssues(obj, Chars("title"), TitleMin, Chars("Ba") \o <<U015F>> \o Chars("l") \o <<U0131>> \o Chars("k ") \o <<U00E7>> \o Chars("ok k") \o <<U0131>> \o Chars("sa"),
                              TitleMax, Chars("Ba") \o <<U015F>> \o Chars("l") \o <<U0131>> \o Chars("k ") \o <<U00E7>> \o Chars("ok uzun"), Chars("Ba") \o <<U015F>> \o Chars("l") \o <<U0131>> \o Chars("k bo") \o <<U015F>> \o Chars(" olamaz"))
              \o StringIssues(obj, Chars("content"),
                              ContentMin, <<U0130, U00E7>> \o Chars("erik ") \o <<U00E7>> \o Chars("ok k") \o <<U0131>> \o Chars("sa (minimum 50 karakter)"),
                              ContentMax, <<U0130, U00E7>> \o Chars("erik ") \o <<U00E7>> \o Chars("ok uzun (maksimum 3000 karakter)"),
                              <<U0130, U00E7>> \o Chars("erik bo") \o <<U015F>> \o Chars(" olamaz"))
              \o NumberIssues(obj, Chars("wordCount"))
              \o EnumIssues(obj, Chars("theme"), StoryTheme, Chars("Ge") \o <<U00E7>> \o Chars("ersiz tema"))
              \o EnumIssues(obj, Chars("language"), {Chars("tr"), Chars("en")},
                            Chars("Dil T") \o <<U00FC>> \o Chars("rk") \o <<U00E7>> \o Chars("e (tr) veya ") \o <<U0130>> \o Chars("ngilizce (en) olmal") \o <<U0131>>)
         IN  IF issues # <<>> THEN [success |-> FALSE, issues |-> issues]
             ELSE [success |-> TRUE,
                   data |-> [title |-> obj[Chars("title")].v,
                             content |-> obj[Chars("content")].v,
                             wordCount |-> obj[Chars("wordCount")].v,
                             theme |-> obj[Chars("theme")].v,
                             language |-> obj[Chars("language")].v]]

MaxRepetitionPercent == 30

DEFAULT_VALIDATION_CONFIG ==
    [minWordCount |-> 50,
     maxWordCount |-> 800,
     requiredFields |-> <<"title", "content", "wordCount", "theme", "language">>,
     qualityThresholds |-> [maxRepetition |-> MaxRepetitionPercent]]

\* Number.prototype.toString of a natural number.
RECURSIVE NatToString(_)
NatToString(n) ==
    IF n < 10 THEN <<Digits[n + 1]>>
    ELSE NatToString(n \div 10) \o <<Digits[(n % 10) + 1]>>

countWords(content) ==
    Len(SelectSeq(Split(content, WhiteSpace), LAMBDA word : Len(word) > 0))

\* For comparison: one range for every length, the range of the default branch.
WidestRange(length) == [min |-> 80, max |-> 650]

getExpectedWordCountRange(length) ==
    CASE length = SHORT -> [min |-> 80, max |-> 220]
      [] length = MEDIUM -> [min |-> 180, max |-> 420]
      [] length = LONG -> [min |-> 350, max |-> 650]
      [] OTHER -> [min |-> 80, max |-> 650]

\* The score is repeatedWords / max(1, totalMeaningfulWords).  A word that
\* names an inherited property and becomes an own key of wordCounts holds a
\* string: the sum is then no number and the score is NaN.  __proto__ never
\* becomes an own key.
calculateRepetitionScore(content) ==
    LET words == Split(toLowerCase(content), WhiteSpace)
        distinct == FirstOccurrences(words)
        own == SelectSeq(distinct, LAMBDA w : w # Chars("__proto__"))
        numeric == SelectSeq(own, LAMBDA w : w \notin ObjectPrototypeNames)
        counts == [i \in 1..Len(numeric) |-> Occurrences(words, numeric[i])]
        Sum[i \in 0..Len(counts)] == IF i = 0 THEN 0 ELSE Sum[i - 1] + counts[i]
    IN  [nan |-> Len(numeric) # Len(own),
         repeatedWords |-> Len(SelectSeq(counts, LAMBDA count : count > 2)),
         totalMeaningfulWords |-> Sum[Len(counts)]]

Max(a, b) == IF a >= b THEN a ELSE b

\* repetitionScore > maxRepetition, with maxRepetition in percent.
ScoreExceeds(score, maxPercent) ==
    /\ ~score.nan
    /\ score.repeatedWords * 100 > maxPercent * Max(1, score.totalMeaningfulWords)

validateContentQuality(content, config) ==
    LET sentences == SelectSeq(Split(content, SentenceEnd), NonBlank)
        repetitionScore == calculateRepetitionScore(content)
        lower == toLowerCase(content)
        hasDialogue ==
            \/ \E i \in DOMAIN content : content[i] \in {"\"", "'", U201E}
            \/ \E v \in {Chars("dedi"), Chars("s") \o <<U00F6>> \o Chars("yledi"), Chars("sordu"), Chars("yan") \o <<U0131>> \o Chars("tlad") \o <<U0131>>} : Includes(lower, v)
        hasNarrative == Len(Split(content, SentenceEnd)) > 5
    IN     (IF Len(sentences) < 3
            THEN <<Error(Chars("content"), <<U0130, U00E7>> \o Chars("erik yeterli c") \o <<U00FC>> \o Chars("mle yap") \o <<U0131>> \o Chars("s") \o <<U0131>> \o Chars("na sahip de") \o <<U011F>> \o Chars("il"),
                         "INSUFFICIENT_STRUCTURE")>> ELSE <<>>)
        \o (IF ScoreExceeds(repetitionScore, config.qualityThresholds.maxRepetition)
            THEN <<Error(Chars("content"), <<U0130, U00E7>> \o Chars("erikte a") \o <<U015F, U0131>> \o Chars("r") \o <<U0131>> \o Chars(" tekrar var"),
                         "EXCESSIVE_REPETITION")>> ELSE <<>>)
        \o (IF ~hasDialogue /\ ~hasNarrative
            THEN <<Error(Chars("content"), <<U0130, U00E7>> \o Chars("erik hikaye format") \o <<U0131>> \o Chars("nda de") \o <<U011F>> \o Chars("il"),
                         "NOT_STORY_FORMAT")>> ELSE <<>>)

TurkishChars ==
    {U00E7, U011F, U0131, U0130, U00F6, U015F, U00FC, U00C7, U011E, U00D6, U015E, U00DC}

commonTurkishWords ==
    <<Chars("bir"), Chars("ve"), Chars("bu"), Chars("o"), Chars("da"), Chars("de"), Chars("ile"), Chars("i") \o <<U00E7>> \o Chars("in"), Chars("var"), Chars("olan")>>

validateTurkishContent(content) ==
    LET lowerContent == toLowerCase(content)
        foundTurkishWords ==
            SelectSeq(commonTurkishWords, LAMBDA word : Includes(lowerContent, word))
    IN     (IF ~(\E i \in DOMAIN content : content[i] \in TurkishChars)
            THEN <<Error(Chars("content"), <<U0130, U00E7>> \o Chars("erik T") \o <<U00FC>> \o Chars("rk") \o <<U00E7>> \o Chars("e karakterler i") \o <<U00E7>> \o Chars("ermiyor"),
                         "NO_TURKISH_CHARACTERS")>> ELSE <<>>)
        \o (IF Len(foundTurkishWords) < 3
            THEN <<Error(Chars("content"), <<U0130, U00E7>> \o Chars("erik T") \o <<U00FC>> \o Chars("rk") \o <<U00E7>> \o Chars("e dilinde g") \o <<U00F6>> \o Chars("r") \o <<U00FC>> \o Chars("nm") \o <<U00FC>> \o Chars("yor"),
                         "NOT_TURKISH_LANGUAGE")>> ELSE <<>>)

\* The result is {valid, data, errors}; NoData stands for an absent data.
NoData == [absent |-> TRUE]

\* For comparison: a validator that stops at the first step that fails.
FirstContentError(data, expectedLength) ==
    IF ~quickSafetyCheck(data.content)
    THEN <<Error(Chars("content"), <<U0130, U00E7>> \o Chars("erik g") \o <<U00FC>> \o Chars("venlik kontrol") \o <<U00FC>> \o Chars("nden ge") \o <<U00E7>> \o Chars("emedi: "),
                 "CONTENT_SAFETY_FAILED")>>
    ELSE IF \/ countWords(data.content) < getExpectedWordCountRange(expectedLength).min
            \/ countWords(data.content) > getExpectedWordCountRange(expectedLength).max
    THEN <<Error(Chars("wordCount"), Chars("Kelime say") \o <<U0131>> \o Chars("s") \o <<U0131>> \o Chars(" beklenen aral") \o <<U0131>> \o Chars("kta de") \o <<U011F>> \o Chars("il."),
                 "WORD_COUNT_MISMATCH")>>
    ELSE IF validateContentQuality(data.content, DEFAULT_VALIDATION_CONFIG) # <<>>
    THEN validateContentQuality(data.content, DEFAULT_VALIDATION_CONFIG)
    ELSE validateTurkishContent(data.content)

\* For comparison: a validator that trusts whatever passed the schema.
NoContentErrors(data, expectedLength) == <<>>

\* Steps 3 to 6 of validateStoryResponse, for data that passed the schema:
\* the guard, the word count, the quality and the language of the content.
ContentErrors(data, expectedLength) ==
       Apply(LAMBDA safetyResult :
                IF ~safetyResult.safe
                THEN <<Error(Chars("content"),
                             <<U0130, U00E7>> \o Chars("erik g") \o <<U00FC>> \o Chars("venlik kontrol") \o <<U00FC>> \o Chars("nden ge") \o <<U00E7>> \o Chars("emedi: ")
                               \o Join([i \in 1..Len(safetyResult.categories) |->
                                           Chars(safetyResult.categories[i])], Chars(", ")),
                             "CONTENT_SAFETY_FAILED")>>
                ELSE <<>>,
             checkContentSafety(data.content, DEFAULT_CONFIG))
    \o Apply(LAMBDA actualWordCount :
                LET expectedRange == getExpectedWordCountRange(expectedLength) IN
                IF actualWordCount < expectedRange.min \/ actualWordCount > expectedRange.max
                THEN <<Error(Chars("wordCount"),
                             Chars("Kelime say") \o <<U0131>> \o Chars("s") \o <<U0131>> \o Chars(" beklenen aral") \o <<U0131>> \o Chars("kta de") \o <<U011F>> \o Chars("il. Beklenen: ")
                               \o NatToString(expectedRange.min) \o Chars("-")
                               \o NatToString(expectedRange.max) \o Chars(", Ger") \o <<U00E7>> \o Chars("ek: ")
                               \o NatToString(actualWordCount),
                             "WORD_COUNT_MISMATCH")>>
                ELSE <<>>,
             countWords(data.content))
    \o validateContentQuality(data.content, DEFAULT_VALIDATION_CONFIG)
    \o validateTurkishContent(data.content)

\* For comparison: a validator that hands the parsed story back with its
\* errors.
KeepData(parsedData, expectedLength) ==
    Apply(LAMBDA schemaResult :
             IF ~schemaResult.success
             THEN [valid |-> FALSE, data |-> NoData,
                   errors |-> [i \in 1..Len(schemaResult.issues) |->
                                  Error(schemaResult.issues[i].path,
                                        schemaResult.issues[i].message,
                                        "SCHEMA_VALIDATION_ERROR")]]
             ELSE Apply(LAMBDA errors :
                           [valid |-> Len(errors) = 0, data |-> schemaResult.data,
                            errors |-> errors],
                        ContentErrors(schemaResult.data, expectedLength)),
          StoryResponseSchema(parsedData.value))

\* Step 2 on: the schema, then the checks of the content.
ValidateParsed(parsedData, expectedLength) ==
    Apply(LAMBDA schemaResult :
             IF ~schemaResult.success
             THEN [valid |-> FALSE, data |-> NoData,
                   errors |-> [i \in 1..Len(schemaResult.issues) |->
                                  Error(IF schemaResult.issues[i].path = <<>>
                                        THEN Chars("unknown")
                                        ELSE schemaResult.issues[i].path,
                                        schemaResult.issues[i].message,
                                        "SCHEMA_VALIDATION_ERROR")]]
             ELSE Apply(LAMBDA errors :
                           [valid |-> Len(errors) = 0,
                            data |-> IF Len(errors) = 0 THEN schemaResult.data ELSE NoData,
                            errors |-> errors],
                        ContentErrors(schemaResult.data, expectedLength)),
          StoryResponseSchema(parsedData.value))

validateStoryResponse(rawResponse, expectedLength) ==
    Apply(LAMBDA parsedData :
             IF ~parsedData.ok
             THEN [valid |-> FALSE, data |-> NoData,
                   errors |-> <<Error(Chars("response"), Chars("Ge") \o <<U00E7>> \o Chars("ersiz JSON format") \o <<U0131>>,
                                      "INVALID_JSON")>>]
             ELSE ValidateParsed(parsedData, expectedLength),
          JSONparse(rawResponse))

\* For comparison: a policy under which nothing is worth a second attempt.
NoRecoverableCodes == {}

recoverableCodes ==
    {"INVALID_JSON", "WORD_COUNT_MISMATCH", "INSUFFICIENT_STRUCTURE", "NOT_STORY_FORMAT"}

\* For comparison: a policy under which every failure is retried.
AlwaysRecoverable(errors) == TRUE

\* For comparison: a policy that looks at the first error only.
FirstErrorRecoverable(errors) ==
    errors # <<>> /\ errors[1].code \in recoverableCodes

isRecoverableError(errors) ==
    \E i \in DOMAIN errors : errors[i].code \in recoverableCodes


(***************************************************************************)
(* JSON text.  JSON.parse reads the characters of a text as tokens and the *)
(* tokens as a value; JSON.stringify writes a value as characters.  The    *)
(* literals covered are those of the texts drawn here: strings with the    *)
(* two-character escapes, numbers without exponent, true, false and null.  *)
(***************************************************************************)
Backslash == "\\"
DoubleQuote == "\""
JSONWhiteSpace == {" ", "\n", "\t", "\r"}
JSONPunct == {"{", "}", "[", "]", ":", ","}
ControlChars == {"\n", "\t", "\r", "\f"}

\* What the character after a backslash stands for.
Unescaped ==
    (DoubleQuote :> DoubleQuote) @@ (Backslash :> Backslash) @@ ("/" :> "/")
    @@ ("n" :> "\n") @@ ("t" :> "\t") @@ ("r" :> "\r") @@ ("f" :> "\f")

\* How JSON.stringify writes a character that cannot stand for itself.
Escaped ==
    (DoubleQuote :> <<Backslash, DoubleQuote>>) @@ (Backslash :> <<Backslash, Backslash>>)
    @@ ("\n" :> <<Backslash, "n">>) @@ ("\t" :> <<Backslash, "t">>)
    @@ ("\r" :> <<Backslash, "r">>)
    @@ ("\f" :> <<Backslash, "f">>)

\* The first position from i on whose character is not in set; Len(s) + 1
\* when there is none.
SkipWhile(s, i, set) ==
    CHOOSE j \in i..(Len(s) + 1) :
        /\ j = Len(s) + 1 \/ s[j] \notin set
        /\ \A x \in i..(j - 1) : s[x] \in set

\* The number of backslashes that stand directly before position j, none of
\* them before position lo.
BackslashesBefore(s, lo, j) ==
    CHOOSE k \in 0..(j - lo) :
        /\ \A x \in 1..k : s[j - x] = Backslash
        /\ k = j - lo \/ s[j - k - 1] # Backslash

\* Position j closes the string literal that opened at position i.
Closes(s, i, j) ==
    /\ s[j] = DoubleQuote
    /\ BackslashesBefore(s, i + 1, j) % 2 = 0

\* The position that closes the string literal opened at i; Len(s) + 1 when
\* the literal is not closed.
ClosingQuote(s, i) ==
    CHOOSE j \in (i + 1)..(Len(s) + 1) :
        /\ j = Len(s) + 1 \/ Closes(s, i, j)
        /\ \A x \in (i + 1)..(j - 1) : s[x] # DoubleQuote \/ ~Closes(s, i, x)

\* The characters between positions lo and hi of a string literal are well
\* formed: no bare control character, no unknown escape.
WellFormedLiteral(s, lo, hi) ==
    \A p \in lo..hi :
        IF BackslashesBefore(s, lo, p) % 2 = 1 THEN s[p] \in DOMAIN Unescaped
        ELSE s[p] \notin ControlChars

\* The characters the literal between lo and hi stands for.
RECURSIVE Unescape(_, _, _, _)
Unescape(s, from, lo, hi) ==
    IF lo > hi THEN <<>>
    ELSE IF lo = hi
    THEN (IF BackslashesBefore(s, from, lo) % 2 = 1 THEN <<Unescaped[s[lo]]>>
          ELSE IF s[lo] = Backslash THEN <<>>
          ELSE <<s[lo]>>)
    ELSE LET mid == (lo + hi) \div 2
         IN  Unescape(s, from, lo, mid) \o Unescape(s, from, mid + 1, hi)

\* The number a run of digits writes.
RECURSIVE DigitsValue(_)
DigitsValue(ds) ==
    IF ds = <<>> THEN 0
    ELSE 10 * DigitsValue(SubSeq(ds, 1, Len(ds) - 1))
         + (CHOOSE d \in 0..9 : Digits[d + 1] = ds[Len(ds)])

NoToken(next) == [k |-> "none", next |-> next]
Token(tok, next) == [k |-> "token", token |-> tok, next |-> next]

\* The string literal that opens at position i.
StringToken(s, i) ==
    Apply(LAMBDA j :
             IF j > Len(s) \/ ~WellFormedLiteral(s, i + 1, j - 1)
             THEN Token(JunkTok(SubSeq(s, i, Len(s))), Len(s) + 1)
             ELSE Token(StrTok(Unescape(s, i + 1, i + 1, j - 1)), j + 1),
          ClosingQuote(s, i))

\* The number that starts at position i: an optional sign, digits without a
\* leading zero, an optional fraction.  A fraction that is not zero is kept
\* as the flag half: it compares with whole numbers as a half does.
NumberToken(s, i) ==
    LET first == IF s[i] = "-" THEN i + 1 ELSE i
        afterInt == SkipWhile(s, first, Range(Digits))
        whole == SubSeq(s, first, afterInt - 1)
        hasFraction == afterInt <= Len(s) /\ s[afterInt] = "."
        afterFraction == IF hasFraction THEN SkipWhile(s, afterInt + 1, Range(Digits))
                         ELSE afterInt
        fraction == SubSeq(s, afterInt + 1, afterFraction - 1)
        next == afterFraction
        malformed ==
            \/ whole = <<>>
            \/ Len(whole) > 1 /\ whole[1] = "0"
            \/ hasFraction /\ fraction = <<>>
            \/ next <= Len(s) /\ s[next] \in {"e", "E"}
    IN  IF malformed THEN Token(JunkTok(SubSeq(s, i, Len(s))), Len(s) + 1)
        ELSE Token([k |-> "number",
                    v |-> IF s[i] = "-" THEN 0 - DigitsValue(whole) ELSE DigitsValue(whole),
                    half |-> \E p \in DOMAIN fraction : fraction[p] # "0"],
                   next)

\* The word that starts at position i: true, false or null.
WordToken(s, i) ==
    LET next == SkipWhile(s, i, Range(LowerAZ))
        word == SubSeq(s, i, next - 1)
    IN  IF word \in {Chars("true"), Chars("false"), Chars("null")}
        THEN Token(WordTok(CASE word = Chars("true") -> "true"
                             [] word = Chars("false") -> "false"
                             [] OTHER -> "null"), next)
        ELSE Token(JunkTok(SubSeq(s, i, Len(s))), Len(s) + 1)

\* The token that starts at or after position i, white space skipped.
NextToken(s, i) ==
    Apply(LAMBDA j :
             IF j > Len(s) THEN NoToken(j)
             ELSE IF s[j] \in JSONPunct THEN Token(Punct(s[j]), j + 1)
             ELSE IF s[j] = DoubleQuote THEN StringToken(s, j)
             ELSE IF s[j] = "-" \/ s[j] \in Range(Digits) THEN NumberToken(s, j)
             ELSE IF s[j] \in Range(LowerAZ) THEN WordToken(s, j)
             ELSE Token(JunkTok(SubSeq(s, j, Len(s))), Len(s) + 1),
          SkipWhile(s, i, JSONWhiteSpace))

\* The tokens of the text from position i on.
RECURSIVE TokensFrom(_, _)
TokensFrom(s, i) ==
    Apply(LAMBDA t : IF t.k = "none" THEN <<>>
                     ELSE <<t.token>> \o TokensFrom(s, t.next),
          NextToken(s, i))

\* The tokens of a text.
Tokens(rawText) == TokensFrom(rawText, 1)

\* JSON.stringify of a string.
Quoted(str) == <<DoubleQuote>> \o FlatMap(str, Escaped, 1, Len(str)) \o <<DoubleQuote>>

\* JSON.stringify of an object with the five keys of a story, in this order.
JSONstringify(o) ==
    Chars("{") \o Quoted(Chars("title")) \o Chars(":") \o Quoted(o.title)
    \o Chars(",") \o Quoted(Chars("content")) \o Chars(":") \o Quoted(o.content)
    \o Chars(",") \o Quoted(Chars("wordCount")) \o Chars(":") \o NatToString(o.wordCount)
    \o Chars(",") \o Quoted(Chars("theme")) \o Chars(":") \o Quoted(o.theme)
    \o Chars(",") \o Quoted(Chars("language")) \o Chars(":") \o Quoted(o.language)
    \o Chars("}")

\* quickValidateJSON: the schema only; the message of the first issue.
\* For comparison: a quick validation that accepts every text that parses.
AcceptParsed(rawResponse) ==
    Apply(LAMBDA parsedData :
             IF ~parsedData.ok
             THEN [valid |-> FALSE, data |-> NoData, error |-> Chars("Invalid JSON format")]
             ELSE [valid |-> TRUE, data |-> parsedData.value, error |-> NoData],
          JSONparse(rawResponse))

quickValidateJSON(rawResponse) ==
    Apply(LAMBDA parsedData :
             IF ~parsedData.ok
             THEN [valid |-> FALSE, data |-> NoData, error |-> Chars("Invalid JSON format")]
             ELSE Apply(LAMBDA result :
                           IF result.success
                           THEN [valid |-> TRUE, data |-> result.data, error |-> NoData]
                           ELSE [valid |-> FALSE, data |-> NoData,
                                 error |-> result.issues[1].message],
                        StoryResponseSchema(parsedData.value)),
          JSONparse(rawResponse))
(***************************************************************************)
(* Prompt builder                                                          *)
(***************************************************************************)
DEFAULT_TEMPLATE ==
    [version |-> Chars("1.0.0"),
     basePrompt |->
        Chars("Sen bir ") \o <<U00E7>> \o Chars("ocuk masal") \o <<U0131>> \o Chars(" yazar") \o <<U0131>> \o Chars("s") \o <<U0131>> \o Chars("n. {childName} ad") \o <<U0131>> \o Chars("nda {age} ya") \o <<U015F, U0131>> \o Chars("nda bir ") \o <<U00E7>> \o Chars("ocuk i") \o <<U00E7>> \o Chars("in ki") \o <<U015F>> \o Chars("iselle") \o <<U015F>> \o Chars("tirilmi") \o <<U015F>> \o Chars(" bir masal yaz.") \o <<"\n", "\n">> \o Chars("Gereksinimler:") \o <<"\n">> \o Chars("- Masal T") \o <<U00FC>> \o Chars("rk") \o <<U00E7>> \o Chars("e olmal") \o <<U0131, "\n">> \o Chars("- ") \o <<U00C7>> \o Chars("ocu") \o <<U011F>> \o Chars("un ya") \o <<U015F, U0131>> \o Chars("na uygun olmal") \o <<U0131, "\n">> \o Chars("- {length} uzunlukta olmal") \o <<U0131, "\n">> \o Chars("- {theme} temas") \o <<U0131>> \o Chars(" i") \o <<U015F>> \o Chars("lenmeli") \o <<"\n">> \o Chars("- Pozitif ve e") \o <<U011F>> \o Chars("itici mesajlar i") \o <<U00E7>> \o Chars("ermeli") \o <<"\n">> \o Chars("- ") \o <<U015E>> \o Chars("iddet, korku veya uygunsuz i") \o <<U00E7>> \o Chars("erik olmamal") \o <<U0131>>,
     ageModifiers |->
        [g \in {"3-5", "6-8", "9-12", "13+"} |->
            CASE g = "3-5" -> <<U00C7>> \o Chars("ok basit kelimeler kullan, tekrarlar yap, renkler ve sesler ekle.")
              [] g = "6-8" -> Chars("Basit kelimeler kullan, k") \o <<U0131>> \o Chars("sa c") \o <<U00FC>> \o Chars("mleler yaz, hayal g") \o <<U00FC>> \o Chars("c") \o <<U00FC>> \o Chars("n") \o <<U00FC>> \o Chars(" geli") \o <<U015F>> \o Chars("tir.")
              [] g = "9-12" -> Chars("Orta seviye kelimeler kullan, daha karma") \o <<U015F, U0131>> \o Chars("k hikaye yap") \o <<U0131>> \o Chars("s") \o <<U0131>> \o Chars(" kur.")
              [] g = "13+" -> Chars("Zengin kelime da") \o <<U011F>> \o Chars("arc") \o <<U0131, U011F, U0131>> \o Chars(" kullan, derin karakterler olu") \o <<U015F>> \o Chars("tur.")],
     themePrompts |->
        [th \in StoryTheme |->
            CASE th = Chars("adventure") -> Chars("Ke") \o <<U015F>> \o Chars("if ve macera dolu bir hikaye anlat. Cesaret ve azmi vurgula.")
              [] th = Chars("friendship") -> Chars("Dostluk, payla") \o <<U015F, U0131>> \o Chars("m ve yard") \o <<U0131>> \o Chars("mla") \o <<U015F>> \o Chars("ma konular") \o <<U0131>> \o Chars("n") \o <<U0131>> \o Chars(" i") \o <<U015F>> \o Chars("le.")
              [] th = Chars("learning") -> <<U00D6, U011F>> \o Chars("renme ve merak konular") \o <<U0131>> \o Chars("n") \o <<U0131>> \o Chars(" e") \o <<U011F>> \o Chars("lenceli ") \o <<U015F>> \o Chars("ekilde anlat.")
              [] th = Chars("fantasy") -> Chars("B") \o <<U00FC>> \o Chars("y") \o <<U00FC>> \o Chars("l") \o <<U00FC>> \o Chars(" kreat") \o <<U00FC>> \o Chars("rler ve fantastik d") \o <<U00FC>> \o Chars("nyalar kur.")
              [] th = Chars("animals") -> Chars("Hayvanlar ve do") \o <<U011F>> \o Chars("a ile ilgili hikaye anlat.")
              [] th = Chars("family") -> Chars("Aile de") \o <<U011F>> \o Chars("erleri ve sevgiyi vurgula.")
              [] th = Chars("nature") -> Chars("Do") \o <<U011F>> \o Chars("a sevgisi ve ") \o <<U00E7>> \o Chars("evre bilincini i") \o <<U015F>> \o Chars("le.")
              [] th = Chars("music") -> Chars("M") \o <<U00FC>> \o Chars("zik ve ritim konular") \o <<U0131>> \o Chars("n") \o <<U0131>> \o Chars(" e") \o <<U011F>> \o Chars("lenceli ") \o <<U015F>> \o Chars("ekilde kur.")],
     lengthSpecs |->
        [l \in StoryLength |->
            CASE l = SHORT -> [wordCount |-> 150, range |-> <<100, 200>>, complexity |-> "simple"]
              [] l = MEDIUM -> [wordCount |-> 300, range |-> <<200, 400>>, complexity |-> "moderate"]
              [] l = LONG -> [wordCount |-> 500, range |-> <<400, 600>>, complexity |-> "advanced"]],
     safetyInstructions |->
        Chars("G") \o <<U00DC>> \o Chars("VENLIK KURALLARI:") \o <<"\n">> \o Chars("- ") \o <<U015E>> \o Chars("iddet, korku veya travma i") \o <<U00E7>> \o Chars("eren i") \o <<U00E7>> \o Chars("erik yazma") \o <<"\n">> \o Chars("- Uygunsuz kelimeler veya kavramlar kullanma") \o <<"\n">> \o Chars("- Aile i") \o <<U00E7>> \o Chars("in g") \o <<U00FC>> \o Chars("venli ve pozitif mesajlar ver") \o <<"\n">> \o Chars("- ") \o <<U00C7>> \o Chars("ocu") \o <<U011F>> \o Chars("un ya") \o <<U015F>> \o Chars(" grubuna uygun i") \o <<U00E7>> \o Chars("erik ") \o <<U00FC>> \o Chars("ret")]

\* The first index at which t occurs in s, 0 if none (String.prototype.indexOf + 1).
IndexOf(s, t) ==
    IF Includes(s, t)
    THEN CHOOSE i \in 1..(Len(s) - Len(t) + 1) :
            /\ SubSeq(s, i, i + Len(t) - 1) = t
            /\ \A j \in 1..(i - 1) : SubSeq(s, j, j + Len(t) - 1) # t
    ELSE 0

\* GetSubstitution for a string pattern: in the replacement text $$ is "$",
\* $& the match, $ and a grave accent the text before it, $' the text after it; any other "$"
\* stands for itself.  The text is read left to right, so in a run of "$" the
\* first, third, ... begin a pattern and the second, fourth, ... end one.
RunStart(repl, i) ==
    CHOOSE p \in 1..i :
        /\ \A k \in p..i : repl[k] = "$"
        /\ (p = 1 \/ repl[p - 1] # "$")

BeginsPattern(repl, i) ==
    /\ i >= 1 /\ i < Len(repl)
    /\ repl[i] = "$"
    /\ (i - RunStart(repl, i)) % 2 = 0
    /\ repl[i + 1] \in {"$", "&", U0060, "'"}

SubstitutionAt(repl, i, matched, before, after) ==
    IF BeginsPattern(repl, i)
    THEN CASE repl[i + 1] = "$" -> <<"$">>
           [] repl[i + 1] = "&" -> matched
           [] repl[i + 1] = U0060 -> before
           [] repl[i + 1] = "'" -> after
    ELSE IF BeginsPattern(repl, i - 1) THEN <<>>
    ELSE <<repl[i]>>

RECURSIVE SubstituteRange(_, _, _, _, _, _)
SubstituteRange(repl, matched, before, after, lo, hi) ==
    IF lo > hi THEN <<>>
    ELSE IF lo = hi THEN SubstitutionAt(repl, lo, matched, before, after)
    ELSE LET mid == (lo + hi) \div 2
         IN  SubstituteRange(repl, matched, before, after, lo, mid)
             \o SubstituteRange(repl, matched, before, after, mid + 1, hi)

GetSubstitution(repl, matched, before, after) ==
    SubstituteRange(repl, matched, before, after, 1, Len(repl))

\* String.prototype.replace(pattern: string, replacement: string): the first
\* occurrence only.
replace(s, pattern, replacement) ==
    LET i == IndexOf(s, pattern) IN
    IF i = 0 THEN s
    ELSE LET before == SubSeq(s, 1, i - 1)
             after == SubSeq(s, i + Len(pattern), Len(s))
         IN  before \o GetSubstitution(replacement, pattern, before, after) \o after

\* Number.prototype.toString of the numbers a request can carry.
NumberToString(num) ==
    NatToString(num.v) \o (IF num.half THEN Chars(".5") ELSE <<>>)

getAgeGroup(age) ==
    IF age.v < 5 \/ (age.v = 5 /\ ~age.half) THEN "3-5"
    ELSE IF age.v < 8 \/ (age.v = 8 /\ ~age.half) THEN "6-8"
    ELSE IF age.v < 12 \/ (age.v = 12 /\ ~age.half) THEN "9-12"
    ELSE "13+"

getLengthDescription(length, spec) ==
    (CASE length = SHORT -> Chars("k") \o <<U0131>> \o Chars("sa")
       [] length = MEDIUM -> Chars("orta uzunlukta")
       [] length = LONG -> Chars("uzun"))
    \o Chars(" (yakla") \o <<U015F, U0131>> \o Chars("k ") \o NatToString(spec.wordCount) \o Chars(" kelime)")

\* A request is the parsed body, a JSON object; its fields are read by key.
Field(request, key) == request.v[key]
HasField(request, key) == key \in DOMAIN request.v

\* The elements of an array, each converted to a string as join converts it.
ElementStrings(arr) ==
    [i \in 1..Len(arr.v) |->
        CASE arr.v[i].t = "string" -> arr.v[i].v
          [] arr.v[i].t = "number" -> NumberToString(arr.v[i])
          [] arr.v[i].t = "null" -> <<>>
          [] arr.v[i].t = "boolean" -> IF arr.v[i].v THEN Chars("true") ELSE Chars("false")
          [] OTHER -> Chars("[object Object]")]

\* request.elements is truthy and request.elements.length > 0
HasElements(request) ==
    /\ HasField(request, Chars("elements"))
    /\ LET e == Field(request, Chars("elements")) IN
       \/ e.t = "array" /\ Len(e.v) > 0
       \/ e.t = "string" /\ Len(e.v) > 0

\* The prompt of a request that passed validateUserRequest.  elements is not
\* validated: a non-empty string has a length and no join, and the call throws.
buildStoryPrompt(request) ==
    LET template == DEFAULT_TEMPLATE
        childName == request.v[Chars("childName")].v
        age == request.v[Chars("age")]
        length == request.v[Chars("length")].v
        theme == request.v[Chars("theme")].v
        ageGroup == getAgeGroup(age)
        lengthSpec == template.lengthSpecs[length]
        themePrompt == template.themePrompts[theme]
        ageModifier == template.ageModifiers[ageGroup]
        base == replace(replace(replace(replace(template.basePrompt,
                    Chars("{childName}"), childName),
                    Chars("{age}"), NumberToString(age)),
                    Chars("{length}"), getLengthDescription(length, lengthSpec)),
                    Chars("{theme}"), themePrompt)
    IN  IF HasElements(request) /\ Field(request, Chars("elements")).t # "array"
        THEN [threw |-> TRUE]
        ELSE [threw |-> FALSE,
              prompt |->
                 base
              \o <<"\n", "\n">> \o Chars("Ya") \o <<U015F>> \o Chars(" grubu ") \o <<U00F6>> \o Chars("zel talimatlar") \o <<U0131>> \o Chars(": ") \o ageModifier
              \o (IF HasElements(request)
                  THEN <<"\n", "\n">> \o Chars("Hikayede bu ") \o <<U00F6, U011F>> \o Chars("eleri de dahil et: ")
                       \o Join(ElementStrings(Field(request, Chars("elements"))), Chars(", "))
                  ELSE <<>>)
              \o <<"\n", "\n">> \o Chars("Hikaye uzunlu") \o <<U011F>> \o Chars("u: ") \o NatToString(lengthSpec.wordCount)
              \o Chars(" kelime civar") \o <<U0131>> \o Chars("nda (") \o NatToString(lengthSpec.range[1]) \o Chars("-")
              \o NatToString(lengthSpec.range[2]) \o Chars(" kelime aras") \o <<U0131>> \o Chars(").")
              \o <<"\n", "\n">> \o template.safetyInstructions
              \o <<"\n", "\n">> \o Chars("Cevab") \o <<U0131>> \o Chars("n") \o <<U0131>> \o Chars(" ") \o <<U015F>> \o Chars("u JSON format") \o <<U0131>> \o Chars("nda ver:") \o <<"\n">> \o Chars("{") \o <<"\n">> \o Chars("    ") \o <<"\"">> \o Chars("title") \o <<"\"">> \o Chars(": ") \o <<"\"">> \o Chars("Hikaye ba") \o <<U015F>> \o Chars("l") \o <<U0131, U011F, U0131, "\"">> \o Chars(",") \o <<"\n">> \o Chars("    ") \o <<"\"">> \o Chars("content") \o <<"\"">> \o Chars(": ") \o <<"\"">> \o Chars("Hikaye i") \o <<U00E7>> \o Chars("eri") \o <<U011F>> \o Chars("i") \o <<"\"">> \o Chars(",") \o <<"\n">> \o Chars("    ") \o <<"\"">> \o Chars("wordCount") \o <<"\"">> \o Chars(": kelime_say") \o <<U0131>> \o Chars("s") \o <<U0131>> \o Chars(",") \o <<"\n">> \o Chars("    ") \o <<"\"">> \o Chars("theme") \o <<"\"">> \o Chars(": ") \o <<"\"">>
              \o theme
              \o <<"\"">> \o Chars(",") \o <<"\n">> \o Chars("    ") \o <<"\"">> \o Chars("language") \o <<"\"">> \o Chars(": ") \o <<"\"">> \o Chars("tr") \o <<"\"", "\n">> \o Chars("}")]

\* For comparison: a retry that repeats the first prompt and drops the error.
SamePromptAgain(originalRequest, previousError) == buildStoryPrompt(originalRequest)

buildRetryPrompt(originalRequest, previousError) ==
    LET basePrompt == buildStoryPrompt(originalRequest) IN
    IF basePrompt.threw THEN basePrompt
    ELSE [threw |-> FALSE,
          prompt |-> basePrompt.prompt
                  \o <<"\n", "\n", U00D6>> \o Chars("NCEKI HATA: ") \o previousError
                  \o <<"\n", "\n">> \o Chars("Bu hatay") \o <<U0131>> \o Chars(" d") \o <<U00FC>> \o Chars("zelterek, ge") \o <<U00E7>> \o Chars("erli JSON format") \o <<U0131>> \o Chars("nda cevap ver. Daha dikkatli ol ve format kurallar") \o <<U0131>> \o Chars("na uy.")]


PromptMin == 100
PromptMax == 2000

validatePrompt(prompt) ==
    LET errors ==
               (IF Len(prompt) < PromptMin THEN <<Chars("Prompt ") \o <<U00E7>> \o Chars("ok k") \o <<U0131>> \o Chars("sa")>> ELSE <<>>)
            \o (IF Len(prompt) > PromptMax THEN <<Chars("Prompt ") \o <<U00E7>> \o Chars("ok uzun")>> ELSE <<>>)
            \o (IF ~Includes(prompt, Chars("JSON"))
                THEN <<Chars("JSON format gereksinimi eksik")>> ELSE <<>>)
            \o (IF ~Includes(prompt, <<U00E7>> \o Chars("ocuk")) /\ ~Includes(prompt, Chars("masal"))
                THEN <<Chars("Temel hikaye elemanlar") \o <<U0131>> \o Chars(" eksik")>> ELSE <<>>)
    IN  [valid |-> Len(errors) = 0, errors |-> errors]

(***************************************************************************)
(* Requests                                                                *)
(***************************************************************************)
Undefined == [t |-> "undefined"]
Object(fields) == [t |-> "object", v |-> fields]
JArray(items) == [t |-> "array", v |-> items]

\* Property access: a missing property, or a property of a non-object, is
\* undefined.
Get(value, key) ==
    IF value.t = "object" /\ key \in DOMAIN value.v THEN value.v[key] ELSE Undefined

\* !value
Falsy(value) ==
    \/ value.t \in {"undefined", "null"}
    \/ value.t = "string" /\ value.v = <<>>
    \/ value.t = "number" /\ value.v = 0 /\ ~value.half
    \/ value.t = "boolean" /\ ~value.v

\* The result is {valid, errors}; reading a property of a null or undefined
\* request throws.
validateUserRequest(request) ==
    IF request.t \in {"undefined", "null"} THEN [threw |-> TRUE]
    ELSE
    LET childName == Get(request, Chars("childName"))
        age == Get(request, Chars("age"))
        theme == Get(request, Chars("theme"))
        length == Get(request, Chars("length"))
        errors ==
               (IF Falsy(childName) \/ childName.t # "string" \/ ~NonBlank(childName.v)
                THEN <<Error(Chars("childName"), <<U00C7>> \o Chars("ocuk ad") \o <<U0131>> \o Chars(" gerekli"), "MISSING_CHILD_NAME")>>
                ELSE <<>>)
            \o (IF \/ Falsy(age) \/ age.t # "number"
                   \/ age.v < 3
                   \/ age.v > 18 \/ (age.v = 18 /\ age.half)
                THEN <<Error(Chars("age"), Chars("Ya") \o <<U015F>> \o Chars(" 3-18 aras") \o <<U0131>> \o Chars("nda olmal") \o <<U0131>>, "INVALID_AGE")>>
                ELSE <<>>)
            \o (IF ~(theme.t = "string" /\ theme.v \in StoryTheme)
                THEN <<Error(Chars("theme"), Chars("Ge") \o <<U00E7>> \o Chars("ersiz hikaye temas") \o <<U0131>>, "INVALID_THEME")>>
                ELSE <<>>)
            \o (IF ~(length.t = "string" /\ length.v \in StoryLength)
                THEN <<Error(Chars("length"), Chars("Ge") \o <<U00E7>> \o Chars("ersiz hikaye uzunlu") \o <<U011F>> \o Chars("u"), "INVALID_LENGTH")>>
                ELSE <<>>)
    IN  [threw |-> FALSE, valid |-> Len(errors) = 0, errors |-> errors]

(***************************************************************************)
(* Collaborators: token verification, the generative model, the database   *)
(***************************************************************************)
\* jwt.verify accepts exactly the tokens signed with the configured secret.
ValidTokens == {Chars("t0k")}

NoPayload == [absent |-> TRUE]

\* For comparison: a check that takes every caller for the signed-in user.
AnyCaller(headers) == [userId |-> "user-1"]

authenticateToken(headers) ==
    LET authHeader == headers.authorization
        pieces == IF authHeader.t = "string"
                  THEN SplitRange(authHeader.v, {" "}, 1, Len(authHeader.v))
                  ELSE <<>>
    IN  IF Falsy(authHeader) \/ Len(pieces) < 2 \/ pieces[2] = <<>> THEN NoPayload
        ELSE IF pieces[2] \in ValidTokens THEN [userId |-> "user-1"]
        ELSE NoPayload

\* The message GeminiClient.generateStory throws for an error of the SDK.
generateStoryCatch(message) ==
    IF Includes(message, Chars("SAFETY")) THEN Chars("Content was blocked by safety filters")
    ELSE IF Includes(message, Chars("QUOTA")) THEN Chars("API quota exceeded")
    ELSE Chars("AI generation failed: ") \o message

\* In percent: the share of the ratings that are NEGLIGIBLE or LOW.
calculateSafetyScore(safetyRatings) ==
    IF Len(safetyRatings) = 0 THEN 80
    ELSE (100 * Len(SelectSeq(safetyRatings,
                              LAMBDA rating : rating \in {"NEGLIGIBLE", "LOW"})))
         \div Len(safetyRatings)

\* The opaque values of generateStoryId() and new Date().toISOString().
generateStoryId == Chars("story_1_abc")
Timestamp == Chars("2024-01-01T00:00:00.000Z")

(***************************************************************************)
(* The inputs the environment can supply                                   *)
(***************************************************************************)
StoryRequest(childName, theme) ==
    (Chars("childName") :> JString(childName)) @@ (Chars("age") :> JNumber(7))
    @@ (Chars("theme") :> JString(theme)) @@ (Chars("length") :> JString(SHORT))

\* Request bodies: no body at all, a well-formed request, an unknown theme,
\* a blocked word among the elements, and elements that are not a list.
Bodies ==
    { Undefined,
      Object(StoryRequest(Chars("Elif"), Chars("animals"))
             @@ (Chars("elements") :> JArray(<<JString(Chars("k") \o <<U00F6>> \o Chars("pek")), JString(Chars("orman"))>>))),
      Object(StoryRequest(Chars("Ahmet"), Chars("horror"))),
      Object(StoryRequest(Chars("Ahmet"), Chars("adventure"))
             @@ (Chars("elements") :> JArray(<<JString(<<U015F>> \o Chars("iddet")), JString(Chars("kavga"))>>))),
      Object(StoryRequest(Chars("Ahmet"), Chars("adventure"))
             @@ (Chars("elements") :> JString(Chars("kedi")))) }

Headers ==
    { [authorization |-> Undefined],
      [authorization |-> JString(Chars("Bearer"))],
      [authorization |-> JString(Chars("Bearer forged"))],
      [authorization |-> JString(Chars("Bearer t0k"))] }

\* The text of a reply of the generative model, as JSON tokens.
StoryJSON(title, content, wordCount) ==
    <<Punct("{"), StrTok(Chars("title")), Punct(":"), StrTok(title), Punct(","),
      StrTok(Chars("content")), Punct(":"), StrTok(content), Punct(","),
      StrTok(Chars("wordCount")), Punct(":"), NumTok(wordCount), Punct(","),
      StrTok(Chars("theme")), Punct(":"), StrTok(Chars("adventure")), Punct(","),
      StrTok(Chars("language")), Punct(":"), StrTok(Chars("tr")), Punct("}")>>

\* The replies the generative model can give: text that is not JSON, a valid
\* story, a story with a blocked word, one that is also too short, a short
\* story, an object that fails the schema, and a story that is not Turkish.
GeminiReplies ==
    [malformed |->
        [content |-> <<JunkTok(Chars("Here is your story"))>>, safetyRatings |-> <<>>],
     valid |->
        [content |-> StoryJSON(Chars("Ahmet ve Orman"), Repeat(Chars("bir ve bu ") \o <<U015F>> \o Chars("u. "), 20), 80),
         safetyRatings |-> <<"NEGLIGIBLE", "LOW", "MEDIUM", "NEGLIGIBLE">>],
     unsafe |->
        [content |-> StoryJSON(Chars("Ahmet ve Orman"),
                               Repeat(Chars("bir ve bu ") \o <<U015F>> \o Chars("u. "), 19) \o Chars("kan ve bu ") \o <<U015F>> \o Chars("u. "), 80),
         safetyRatings |-> <<>>],
     unsafeShort |->
        [content |-> StoryJSON(Chars("Ahmet ve Orman"), Repeat(Chars("bir ve bu kan ") \o <<U015F>> \o Chars("u. "), 12), 60),
         safetyRatings |-> <<>>],
     short |->
        [content |-> StoryJSON(Chars("Ahmet ve Orman"), Repeat(Chars("bir ve bu ") \o <<U015F>> \o Chars("u. "), 15), 60),
         safetyRatings |-> <<>>],
     schema |->
        [content |-> <<Punct("{"), StrTok(Chars("title")), Punct(":"), StrTok(Chars("   ")),
                       Punct("}")>>,
         safetyRatings |-> <<>>],
     english |->
        [content |-> StoryJSON(Chars("Ahmet in the Forest"),
                               Repeat(Chars("he is at my ox. "), 16), 80),
         safetyRatings |-> <<>>]]

\* The messages of the errors the SDK of the generative model can raise.
SdkErrors == {Chars("Response blocked: SAFETY"), Chars("QUOTA exceeded"), Chars("fetch failed")}

(***************************************************************************)
(* POST /api/story: the handler and generateStoryWithRetry                 *)
(***************************************************************************)
VARIABLES
    pc,          \* where the handler is: "idle", the call it awaits, or "done"
    env,         \* process.env: is GEMINI_API_KEY set
    dbCount,     \* the stories of the user in the trailing 24 hours
    request,     \* req: headers and body
    storyCount,  \* what getUserStoryCount returned (-1: not asked yet)
    attempt,     \* the loop variable of generateStoryWithRetry
    lastError,   \* its lastError
    calls,       \* the calls of gemini.generateStory so far: attempt and prompt
    pending,     \* the attempts whose generateStory call has not settled
    replies,     \* what each settled call gave: a reply or a thrown message
    result,      \* what generateStoryWithRetry returned
    stored,      \* the calls of supabase.storeStory so far
    response,    \* the HTTP response sent
    text,        \* the guard under test: its input
    verdict      \* the guard under test: the function called and its result

apiVars == <<pc, env, dbCount, request, storyCount, attempt, lastError, calls,
             pending, replies, result, stored, response>>
guardVars == <<text, verdict>>
vars == <<apiVars, guardVars>>

None == [absent |-> TRUE]

RateLimit == 10
MaxAttempts == 2

\* For comparison: a call that is issued and never awaited.
NeverSettled(stillPending, a) == stillPending

\* The pending calls once the awaited call of attempt a has settled.
Settled(stillPending, a) == stillPending \ {a}

\* For comparison: a loop with one pass more than MaxAttempts.
RECURSIVE OnePassMore(_, _, _)
OnePassMore(storyRequest, a, err) ==
    IF a > MaxAttempts THEN [exhausted |-> TRUE, attempt |-> a, lastError |-> err]
    ELSE LET built == IF a = 0 THEN buildStoryPrompt(storyRequest)
                      ELSE buildRetryPrompt(storyRequest, err)
         IN  IF built.threw
             THEN OnePassMore(storyRequest, a + 1,
                              Chars("request.elements.join is not a function"))
             ELSE [exhausted |-> FALSE, attempt |-> a, prompt |-> built.prompt,
                   lastError |-> err]

\* generateStoryWithRetry from the top of pass a of its loop, with lastError
\* err, up to the next call of gemini.generateStory.  A prompt builder that
\* throws is caught like any other error of the pass.
RECURSIVE EnterLoop(_, _, _)
EnterLoop(storyRequest, a, err) ==
    IF a >= MaxAttempts THEN [exhausted |-> TRUE, attempt |-> a, lastError |-> err]
    ELSE LET built == IF a = 0 THEN buildStoryPrompt(storyRequest)
                      ELSE buildRetryPrompt(storyRequest, err)
         IN  IF built.threw
             THEN EnterLoop(storyRequest, a + 1,
                            Chars("request.elements.join is not a function"))
             ELSE [exhausted |-> FALSE, attempt |-> a, prompt |-> built.prompt,
                   lastError |-> err]

Respond(r) ==
    /\ pc' = "done"
    /\ response' = r

Fail(status, error) ==
    Respond([status |-> status, success |-> FALSE, error |-> error])

InternalServerError == Fail(500, Chars("Internal server error"))

\* For comparison: a failure that passes the last error on as it is.
BareFailure(err) == [success |-> FALSE, error |-> err]

\* What generateStoryWithRetry returns once its loop is left without a story.
FailureResult(err) ==
    [success |-> FALSE, error |-> Chars("Story generation failed after 2 attempts: ") \o err]

\* generateStoryWithRetry returns its failure and the handler answers 500.
ReturnFailure(a, err, stillPending) ==
    LET storyResult == FailureResult(err)
    IN  /\ result' = storyResult
        /\ attempt' = a
        /\ lastError' = err
        /\ pending' = stillPending
        /\ Fail(500, storyResult.error)
        /\ UNCHANGED <<calls, stored>>

\* The loop goes on from the top of pass a.
Continue(a, err, stillPending) ==
    \E step \in {EnterLoop(request.body, a, err)} :
    IF step.exhausted THEN ReturnFailure(step.attempt, step.lastError, stillPending)
    ELSE /\ attempt' = step.attempt
         /\ lastError' = step.lastError
         /\ calls' = Append(calls, [attempt |-> step.attempt, prompt |-> step.prompt])
         /\ pending' = stillPending \cup {step.attempt}
         /\ pc' = "generateStory"
         /\ UNCHANGED <<result, stored, response>>

\* `${storyRequest.childName} ${storyRequest.elements?.join(' ') || ''}`
UserInput(storyRequest) ==
    LET childName == Get(storyRequest, Chars("childName")).v
        elements == Get(storyRequest, Chars("elements"))
    IN  IF elements.t \in {"undefined", "null"}
        THEN [threw |-> FALSE, input |-> childName \o Chars(" ")]
        ELSE IF elements.t # "array" THEN [threw |-> TRUE]
        ELSE [threw |-> FALSE,
              input |-> childName \o Chars(" ") \o Join(ElementStrings(elements), Chars(" "))]

\* The handler from the arrival of the request to its first await.
handler(headers, body) ==
    /\ pc = "idle"
    /\ request' = [headers |-> headers, body |-> body]
    /\ \E authPayload \in {authenticateToken(headers)},
          requestValidation \in {validateUserRequest(body)} :
           IF authPayload = NoPayload
           THEN Fail(401, Chars("Authentication required"))
           ELSE IF requestValidation.threw THEN InternalServerError
           ELSE IF ~requestValidation.valid THEN Fail(400, Chars("Invalid request"))
           ELSE \E userInput \in {UserInput(body)} :
                IF userInput.threw THEN InternalServerError
                ELSE IF ~preCheckUserInput(userInput.input).safe
                THEN Fail(400, Chars("Input contains inappropriate content"))
                ELSE /\ pc' = "getUserStoryCount"
                     /\ UNCHANGED response
    /\ UNCHANGED <<env, dbCount, storyCount, attempt, lastError, calls, pending,
                   replies, result, stored, guardVars>>

\* For comparison: a count that throws when its query fails, so that the
\* handler answers 500.
CountOrThrow(queryFailed) ==
    /\ pc = "getUserStoryCount"
    /\ IF queryFailed
       THEN /\ InternalServerError
            /\ UNCHANGED <<storyCount, attempt, lastError, calls, pending, result, stored>>
       ELSE /\ storyCount' = dbCount
            /\ IF dbCount >= RateLimit
               THEN /\ Fail(429, Chars("Daily story limit reached"))
                    /\ UNCHANGED <<attempt, lastError, calls, pending, result, stored>>
               ELSE IF ~env.GEMINI_API_KEY
               THEN /\ InternalServerError
                    /\ UNCHANGED <<attempt, lastError, calls, pending, result, stored>>
               ELSE Continue(0, <<>>, pending)
    /\ UNCHANGED <<env, dbCount, request, replies, guardVars>>

\* getUserStoryCount resolves: the count of the query, or 0 when the query
\* failed.  Below the limit the handler enters generateStoryWithRetry, which
\* runs to its first call of the generative model.
getUserStoryCount(queryFailed) ==
    /\ pc = "getUserStoryCount"
    /\ \E count \in {IF queryFailed THEN 0 ELSE dbCount} :
       /\ storyCount' = count
       /\ IF count >= RateLimit
          THEN /\ Fail(429, Chars("Daily story limit reached"))
               /\ UNCHANGED <<attempt, lastError, calls, pending, result, stored>>
          ELSE IF ~env.GEMINI_API_KEY
          THEN /\ InternalServerError
               /\ UNCHANGED <<attempt, lastError, calls, pending, result, stored>>
          ELSE Continue(0, <<>>, pending)
    /\ UNCHANGED <<env, dbCount, request, replies, guardVars>>

\* gemini.generateStory resolves with a reply: the reply is validated, and
\* the loop returns the story, breaks, or goes on to the next pass.
generateStoryReturns(name) ==
    /\ pc = "generateStory"
    /\ \E geminiResponse \in {GeminiReplies[name]} :
       \E validation \in {validateStoryResponse(geminiResponse.content,
                                                Get(request.body, Chars("length")).v)} :
        /\ replies' = Append(replies, [attempt |-> attempt, threw |-> FALSE,
                                       reply |-> name, validation |-> validation])
        /\ IF validation.valid /\ validation.data # NoData
           THEN LET story ==
                        [id |-> generateStoryId,
                         title |-> validation.data.title,
                         content |-> validation.data.content,
                         childName |-> Get(request.body, Chars("childName")).v,
                         theme |-> Get(request.body, Chars("theme")).v,
                         length |-> Get(request.body, Chars("length")).v,
                         wordCount |-> validation.data.wordCount,
                         createdAt |-> Timestamp]
                    metadata ==
                        [model |-> "gemini-pro",
                         safetyScore |-> calculateSafetyScore(geminiResponse.safetyRatings),
                         language |-> validation.data.language,
                         promptVersion |-> Chars("1.0.0")]
                IN  /\ result' = [success |-> TRUE, story |-> story, metadata |-> metadata]
                    /\ stored' = Append(stored, [story |-> story,
                                                 userId |-> authenticateToken(request.headers).userId,
                                                 metadata |-> metadata])
                    /\ pending' = Settled(pending, attempt)
                    /\ pc' = "storeStory"
                    /\ UNCHANGED <<attempt, lastError, calls, response>>
           ELSE \E message \in {Join([i \in DOMAIN validation.errors |->
                                           validation.errors[i].message], Chars(", "))} :
                    IF ~isRecoverableError(validation.errors)
                    THEN ReturnFailure(attempt, message, Settled(pending, attempt))
                    ELSE Continue(attempt + 1, message, Settled(pending, attempt))
    /\ UNCHANGED <<env, dbCount, request, storyCount, guardVars>>

\* gemini.generateStory rejects: the message is kept and the loop goes on.
generateStoryThrows(sdkError) ==
    /\ pc = "generateStory"
    /\ \E message \in {generateStoryCatch(sdkError)} :
       /\ replies' = Append(replies, [attempt |-> attempt, threw |-> TRUE,
                                      message |-> message])
       /\ Continue(attempt + 1, message, Settled(pending, attempt))
    /\ UNCHANGED <<env, dbCount, request, storyCount, guardVars>>

\* supabase.storeStory resolves: the row is in the table and the handler
\* answers 200 with the story.
storeStoryReturns ==
    /\ pc = "storeStory"
    /\ dbCount' = dbCount + 1
    /\ Respond([status |-> 200, success |-> TRUE,
                story |-> result.story, metadata |-> result.metadata])
    /\ UNCHANGED <<env, request, storyCount, attempt, lastError, calls, pending,
                   replies, result, stored, guardVars>>

\* For comparison: a handler that answers with the story although the store
\* failed.
AnswerAnyway ==
    /\ pc = "storeStory"
    /\ Respond([status |-> 200, success |-> TRUE,
                story |-> result.story, metadata |-> result.metadata])
    /\ UNCHANGED <<env, dbCount, request, storyCount, attempt, lastError, calls,
                   pending, replies, result, stored, guardVars>>

\* supabase.storeStory rejects: the handler's catch answers 500.
storeStoryThrows ==
    /\ pc = "storeStory"
    /\ InternalServerError
    /\ UNCHANGED <<env, dbCount, request, storyCount, attempt, lastError, calls,
                   pending, replies, result, stored, guardVars>>

Init ==
    /\ pc = "idle"
    /\ env \in [GEMINI_API_KEY : BOOLEAN]
    /\ dbCount \in {RateLimit - 1, RateLimit}
    /\ request = None
    /\ storyCount = -1
    /\ attempt = 0
    /\ lastError = <<>>
    /\ calls = <<>>
    /\ pending = {}
    /\ replies = <<>>
    /\ result = None
    /\ stored = <<>>
    /\ response = None
    /\ text = None
    /\ verdict = None

Next ==
    \/ \E headers \in Headers, body \in Bodies : handler(headers, body)
    \/ \E queryFailed \in BOOLEAN : getUserStoryCount(queryFailed)
    \/ \E name \in DOMAIN GeminiReplies : generateStoryReturns(name)
    \/ \E sdkError \in SdkErrors : generateStoryThrows(sdkError)
    \/ storeStoryReturns
    \/ storeStoryThrows

Spec == Init /\ [][Next]_vars

(***************************************************************************)
(* The guard on its own: a text is drawn and one of the three entry points *)
(* of the guard is applied to it.                                          *)
(***************************************************************************)
\* The filler word: three characters, so never counted by checkRepetition,
\* and it ends a sentence.
Filler == Chars("ev.")

\* A text is: leading white space, a word written `copies` times, `filler`
\* filler words, trailing white space; one space between two words.
TextOf(t) ==
    t.lead
    \o Join([i \in 1..(t.copies + t.filler) |->
                IF i <= t.copies THEN t.word ELSE Filler], Chars(" "))
    \o t.trail

FewWords == 2
ManyCopies == 7

\* Words to put in front of the filler: blocked terms in lower and in upper
\* case, harmless words, a name every object inherits, a keyword of a
\* blocking rule in lower and in upper case, and a phrase of a warning rule.
Words ==
    {<<U015F>> \o Chars("iddet"), <<U015E, U0130>> \o Chars("DDET"), Chars("KAVGA"), Chars("ACI"), Chars("PART") \o <<U0130>>, Chars("masal"), Chars("constructor"),
     Chars("zarar"), Chars("ZARAR"), <<U00E7>> \o Chars("ok ") \o <<U00FC>> \o Chars("zg") \o <<U00FC>> \o Chars("n")}

ShortTexts ==
    [lead : {<<>>, Chars(" ")}, word : Words, copies : {0, 1, ManyCopies},
     filler : {FewWords, MinGuardWords - 1, MinGuardWords},
     trail : {<<>>, <<"\n">>}]

\* Texts at the upper limit of checkContentLength.
LongTexts ==
    {[lead |-> <<>>, word |-> Chars("masal"), copies |-> 0, filler |-> MaxGuardWords,
      trail |-> <<>>],
     [lead |-> <<>>, word |-> Chars("masal"), copies |-> 0, filler |-> MaxGuardWords,
      trail |-> <<"\n">>],
     [lead |-> <<>>, word |-> Chars("masal"), copies |-> 1, filler |-> MaxGuardWords,
      trail |-> <<>>]}

Texts == {t \in ShortTexts : t.copies > 0 \/ t.word = Chars("masal")} \cup LongTexts

InitGuard ==
    /\ pc = "idle"
    /\ env = [GEMINI_API_KEY |-> TRUE]
    /\ dbCount = 0
    /\ request = None
    /\ storyCount = -1
    /\ attempt = 0
    /\ lastError = <<>>
    /\ calls = <<>>
    /\ pending = {}
    /\ replies = <<>>
    /\ result = None
    /\ stored = <<>>
    /\ response = None
    /\ text \in Texts
    /\ verdict = None

CallCheckContentSafety ==
    /\ verdict = None
    /\ verdict' = [of |-> "checkContentSafety",
                   result |-> checkContentSafety(TextOf(text), DEFAULT_CONFIG)]
    /\ UNCHANGED <<text, apiVars>>

CallPreCheckUserInput ==
    /\ verdict = None
    /\ verdict' = [of |-> "preCheckUserInput", result |-> preCheckUserInput(TextOf(text))]
    /\ UNCHANGED <<text, apiVars>>

CallQuickSafetyCheck ==
    /\ verdict = None
    /\ verdict' = [of |-> "quickSafetyCheck", result |-> quickSafetyCheck(TextOf(text))]
    /\ UNCHANGED <<text, apiVars>>

NextGuard ==
    \/ CallCheckContentSafety
    \/ CallPreCheckUserInput
    \/ CallQuickSafetyCheck

SpecGuard == InitGuard /\ [][NextGuard]_vars

(***************************************************************************)
(* The validator on its own: a reply text and an expected length are drawn *)
(* and validateStoryResponse or quickValidateJSON is applied to the text.  *)
(***************************************************************************)
\* Words to build contents from, taken in turn: Turkish, with a blocked
\* term, English, without sentence ends, and with quotation marks.
WordCycles ==
    [tr |-> <<Chars("bir"), Chars("ve"), Chars("bu"), <<U015F>> \o Chars("u.")>>,
     kan |-> <<Chars("bir"), Chars("ve"), Chars("bu"), Chars("kan.")>>,
     en |-> <<Chars("he"), Chars("is"), Chars("at"), Chars("my"), Chars("ox.")>>,
     flat |-> <<Chars("bir"), Chars("ve"), Chars("bu"), <<U015F>> \o Chars("u")>>,
     said |-> <<<<"\"">> \o Chars("bir") \o <<"\"">>, Chars("ve"), Chars("bu") \o <<"\\">>, <<U015F>> \o Chars("u.")>>]

\* A content: the words of lead, then words of the cycle up to `words`
\* words in all, sep between two words.
ContentOf(c) ==
    Join([i \in 1..c.words |->
             IF i <= Len(c.lead) THEN c.lead[i]
             ELSE WordCycles[c.cycle][((i - 1 - Len(c.lead)) % Len(WordCycles[c.cycle])) + 1]],
         c.sep)

Content(cycle, words) == [cycle |-> cycle, words |-> words, lead |-> <<>>, sep |-> Chars(" ")]

\* The object a reply describes, when it describes one.
StoryObject(c, declared) ==
    [title |-> Chars("Ahmet ve Orman"), content |-> ContentOf(c), wordCount |-> declared,
     theme |-> Chars("adventure"), language |-> Chars("tr")]

\* The text of an object whose five values are written as given.
RawStory(f) ==
    Chars("{") \o <<"\"">> \o Chars("title") \o <<"\"">> \o Chars(":") \o f.title \o Chars(",") \o <<"\"">> \o Chars("content") \o <<"\"">> \o Chars(":") \o f.content
    \o Chars(",") \o <<"\"">> \o Chars("wordCount") \o <<"\"">> \o Chars(":") \o f.wordCount \o Chars(",") \o <<"\"">> \o Chars("theme") \o <<"\"">> \o Chars(":") \o f.theme
    \o Chars(",") \o <<"\"">> \o Chars("language") \o <<"\"">> \o Chars(":") \o f.language \o Chars("}")

GoodFields ==
    [title |-> <<"\"">> \o Chars("Ahmet ve Orman") \o <<"\"">>,
     content |-> Quoted(ContentOf(Content("tr", 80))),
     wordCount |-> Chars("80"), theme |-> <<"\"">> \o Chars("adventure") \o <<"\"">>, language |-> <<"\"">> \o Chars("tr") \o <<"\"">>]

\* Texts that are not JSON: nothing at all, an unclosed object, prose, a
\* fenced block, a missing value, a trailing comma, single quotes, two values,
\* an unclosed string, a line break and an unknown escape inside a string,
\* a leading zero, a fraction without digits, a misspelt word.
NotJSONTexts ==
    {<<>>, Chars("{"), Chars("Here is your story"), <<U0060, U0060, U0060>> \o Chars("json") \o <<"\n">> \o Chars("{}") \o <<"\n", U0060, U0060, U0060>>, Chars("{") \o <<"\"">> \o Chars("title") \o <<"\"">> \o Chars(":}"),
     Chars("{") \o <<"\"">> \o Chars("title") \o <<"\"">> \o Chars(":") \o <<"\"">> \o Chars("x") \o <<"\"">> \o Chars(",}"), Chars("{'title':1}"), Chars("{} {}"), <<"\"">> \o Chars("abc"), Chars("{") \o <<"\"">> \o Chars("a") \o <<"\"">> \o Chars(":") \o <<"\"">> \o Chars("x") \o <<"\n">> \o Chars("y") \o <<"\"">> \o Chars("}"),
     Chars("{") \o <<"\"">> \o Chars("a") \o <<"\"">> \o Chars(":") \o <<"\"", "\\">> \o Chars("x") \o <<"\"">> \o Chars("}"), Chars("01"), Chars("1."), Chars("nul")}

\* Texts that are JSON and no story.
OtherJSONTexts ==
    {Chars("null"), Chars("[]"), Chars("[1,") \o <<"\"">> \o Chars("a") \o <<"\"">> \o Chars("]"), Chars("42"), <<"\"">> \o Chars("text") \o <<"\"">>, Chars("true"), Chars("{}"),
     Chars(" {") \o <<"\"">> \o Chars("title") \o <<"\"">> \o Chars(" : ") \o <<"\"">> \o Chars("   ") \o <<"\"">> \o Chars("} ")}

\* The reply texts drawn.  A text is given by its characters, by the values
\* of its five fields, or by the object JSON.stringify is applied to.
RawTexts == NotJSONTexts \cup OtherJSONTexts

FieldTexts ==
    {[GoodFields EXCEPT !.title = v] :
        v \in {<<"\"">> \o Chars("   ") \o <<"\"">>, <<"\"">> \o Chars("     ") \o <<"\"">>, Chars("7"), Chars("null"), <<"\"">> \o Chars("Ahm") \o <<"\\", "\"">> \o Chars("et") \o <<"\"">>,
               Quoted(Repeat(Chars("a"), TitleMax + 1))}}
    \cup {[GoodFields EXCEPT !.content = v] :
        v \in {<<"\"">> \o Chars("bir ve bu.") \o <<"\"">>, Quoted(Repeat(Chars(" "), ContentMin)),
               Quoted(Repeat(Chars("bir ve bu. "), 300) \o Chars("x"))}}
    \cup {[GoodFields EXCEPT !.wordCount = v] :
        v \in {Chars("49"), Chars("40.5"), Chars("50"), Chars("80.0"), Chars("800"), Chars("800.5"), Chars("801"), <<"\"">> \o Chars("80") \o <<"\"">>,
               Chars("-80")}}
    \cup {[GoodFields EXCEPT !.theme = v] : v \in {<<"\"">> \o Chars("horror") \o <<"\"">>, Chars("5"), <<"\"">> \o Chars("music") \o <<"\"">>}}
    \cup {[GoodFields EXCEPT !.language = v] : v \in {<<"\"">> \o Chars("de") \o <<"\"">>, <<"\"">> \o Chars("en") \o <<"\"">>, <<"\"">> \o Chars("TR") \o <<"\"">>}}
    \cup {[GoodFields EXCEPT !.title = <<"\"">> \o Chars("Ali") \o <<"\"">>, !.wordCount = Chars("40"),
                             !.language = <<"\"">> \o Chars("de") \o <<"\"">>]}

Stories ==
    \* the limits of the three ranges of words
    {[c |-> Content("tr", n), declared |-> 100] :
        n \in {79, 80, 81, 179, 180, 219, 220, 221, 349, 350, 420, 421, 650, 651}}
    \* defects of the content, alone and together
    \cup {[c |-> Content(cycle, n), declared |-> n] :
            cycle \in {"kan", "en", "flat", "said"}, n \in {60, 80}}
    \cup {[c |-> [cycle |-> "tr", words |-> n, lead |-> <<Chars("masal"), Chars("masal"), Chars("masal")>>,
                  sep |-> Chars(" ")],
           declared |-> n] : n \in {60, 80}}
    \cup {[c |-> [cycle |-> "tr", words |-> 80, lead |-> <<>>, sep |-> <<"\n">>],
           declared |-> 80]}

ValidatorInputs ==
    {[kind |-> "raw", raw |-> r, expectedLength |-> SHORT] : r \in RawTexts}
    \cup {[kind |-> "fields", fields |-> f, expectedLength |-> SHORT] : f \in FieldTexts}
    \cup {[kind |-> "story", story |-> s, expectedLength |-> l] :
            s \in Stories, l \in StoryLength}

\* The characters of the reply text.
RawOf(input) ==
    CASE input.kind = "raw" -> input.raw
      [] input.kind = "fields" -> RawStory(input.fields)
      [] OTHER -> JSONstringify(StoryObject(input.story.c, input.story.declared))

InitValidator ==
    /\ pc = "idle"
    /\ env = [GEMINI_API_KEY |-> TRUE]
    /\ dbCount = 0
    /\ request = None
    /\ storyCount = -1
    /\ attempt = 0
    /\ lastError = <<>>
    /\ calls = <<>>
    /\ pending = {}
    /\ replies = <<>>
    /\ result = None
    /\ stored = <<>>
    /\ response = None
    /\ text \in ValidatorInputs
    /\ verdict = None

CallValidateStoryResponse ==
    /\ verdict = None
    /\ \E rawResponse \in {Tokens(RawOf(text))} :
           verdict' = [of |-> "validateStoryResponse",
                       result |-> validateStoryResponse(rawResponse, text.expectedLength)]
    /\ UNCHANGED <<text, apiVars>>

CallQuickValidateJSON ==
    /\ verdict = None
    /\ \E rawResponse \in {Tokens(RawOf(text))} :
           verdict' = [of |-> "quickValidateJSON", result |-> quickValidateJSON(rawResponse)]
    /\ UNCHANGED <<text, apiVars>>

NextValidator ==
    \/ CallValidateStoryResponse
    \/ CallQuickValidateJSON

SpecValidator == InitValidator /\ [][NextValidator]_vars

\* ---------------------------------------------------------------------
\* isRecoverableError applied to lists of errors.

\* The codes the validator gives, and two it never gives.
ErrorCodes ==
    {"INVALID_JSON", "SCHEMA_VALIDATION_ERROR", "CONTENT_SAFETY_FAILED",
     "WORD_COUNT_MISMATCH", "INSUFFICIENT_STRUCTURE", "EXCESSIVE_REPETITION",
     "NOT_STORY_FORMAT", "NO_TURKISH_CHARACTERS", "NOT_TURKISH_LANGUAGE",
     "invalid_json", ""}

\* Each code with two fields and messages.
ErrorsDrawn ==
    {Error(Chars("content"), <<U0130, U00E7>> \o Chars("erik hikaye format") \o <<U0131>> \o Chars("nda de") \o <<U011F>> \o Chars("il"), code) : code \in ErrorCodes}
    \cup {Error(Chars("response"), Chars("INVALID_JSON"), code) : code \in ErrorCodes}

MaxErrors == 2

ErrorLists == UNION {[1..n -> ErrorsDrawn] : n \in 0..MaxErrors}

InitRecoverable ==
    /\ pc = "idle"
    /\ env = [GEMINI_API_KEY |-> TRUE]
    /\ dbCount = 0
    /\ request = None
    /\ storyCount = -1
    /\ attempt = 0
    /\ lastError = <<>>
    /\ calls = <<>>
    /\ pending = {}
    /\ replies = <<>>
    /\ result = None
    /\ stored = <<>>
    /\ response = None
    /\ text \in {[kind |-> "errors", errors |-> errors] : errors \in ErrorLists}
    /\ verdict = None

CallIsRecoverableError ==
    /\ verdict = None
    /\ verdict' = [of |-> "isRecoverableError", result |-> isRecoverableError(text.errors)]
    /\ UNCHANGED <<text, apiVars>>

NextRecoverable == CallIsRecoverableError

SpecRecoverable == InitRecoverable /\ [][NextRecoverable]_vars

\* ---------------------------------------------------------------------
\* validateUserRequest applied to request bodies.

\* A field the body does not have.
Missing == [t |-> "missing"]

HalfPast(n) == [t |-> "number", v |-> n, half |-> TRUE]

RequestNames ==
    {Missing, JNull, JString(Chars("Ahmet")), JString(<<>>), JString(Chars("   ")), JNumber(7)}

\* Ages at and around the limits 3 and 18, whole and with a fraction.
RequestAges ==
    {Missing, JNull, JString(Chars("7")), JArray(<<>>)}
    \cup {JNumber(n) : n \in {0, 2, 3, 7, 18, 19}}
    \cup {HalfPast(n) : n \in {0, 2, 3, 7, 17, 18}}

RequestThemes ==
    {Missing, JString(Chars("adventure")), JString(Chars("music")), JString(Chars("horror")),
     JString(Chars("ADVENTURE")), JNumber(0)}

RequestLengths ==
    {Missing, JString(Chars("short")), JString(Chars("long")), JString(Chars("tiny")), JNumber(3)}

\* The fields of a body: those that are not missing.
RequestFields(childName, age, theme, length) ==
    LET all == (Chars("childName") :> childName) @@ (Chars("age") :> age)
               @@ (Chars("theme") :> theme) @@ (Chars("length") :> length)
    IN  [key \in {k \in DOMAIN all : all[k] # Missing} |-> all[key]]

Requests ==
    {Undefined, JNull, JString(Chars("Ahmet")), JNumber(7), JArray(<<>>)}
    \cup {Object(RequestFields(childName, age, theme, length)) :
            childName \in RequestNames, age \in RequestAges,
            theme \in RequestThemes, length \in RequestLengths}

InitRequest ==
    /\ pc = "idle"
    /\ env = [GEMINI_API_KEY |-> TRUE]
    /\ dbCount = 0
    /\ request = None
    /\ storyCount = -1
    /\ attempt = 0
    /\ lastError = <<>>
    /\ calls = <<>>
    /\ pending = {}
    /\ replies = <<>>
    /\ result = None
    /\ stored = <<>>
    /\ response = None
    /\ text \in {[kind |-> "request", request |-> r] : r \in Requests}
    /\ verdict = None

CallValidateUserRequest ==
    /\ verdict = None
    /\ verdict' = [of |-> "validateUserRequest", result |-> validateUserRequest(text.request)]
    /\ UNCHANGED <<text, apiVars>>

NextRequest == CallValidateUserRequest

SpecRequest == InitRequest /\ [][NextRequest]_vars

\* ---------------------------------------------------------------------
\* buildStoryPrompt and validatePrompt applied to requests.

\* Names: plain ones, names with the "$" patterns of String.prototype.replace,
\* a name that spells a placeholder, and a long one.
PromptNames ==
    {Chars("Ahmet"), Chars("Elif Su"), Chars("Ali$&"), Chars("A$$B"), Chars("$") \o <<U0060>> \o Chars("x"), Chars("$'"), Chars("$"),
     Chars("Can{age}"),
     Repeat(Chars("a"), 1500)}

PromptElements ==
    {Missing, JArray(<<>>), JArray(<<JString(Chars("kedi"))>>),
     JArray(<<JString(Chars("kedi")), JString(Chars("top"))>>), JString(Chars("kedi"))}

PromptAges == {JNumber(3), JNumber(5), JNumber(6), JNumber(9), JNumber(13), JNumber(18)}

PromptRequest(childName, age, theme, length, elements) ==
    Object([key \in {Chars("childName"), Chars("age"), Chars("theme"), Chars("length")}
                    \cup (IF elements = Missing THEN {} ELSE {Chars("elements")}) |->
               CASE key = Chars("childName") -> JString(childName)
                 [] key = Chars("age") -> age
                 [] key = Chars("theme") -> JString(theme)
                 [] key = Chars("length") -> JString(length)
                 [] OTHER -> elements])

PromptRequests ==
    {PromptRequest(childName, JNumber(7), Chars("adventure"), SHORT, elements) :
        childName \in PromptNames, elements \in PromptElements}
    \cup {PromptRequest(Chars("Ahmet"), age, theme, length, Missing) :
            age \in PromptAges, theme \in {Chars("adventure"), Chars("music"), Chars("family")},
            length \in StoryLength}
    \cup {PromptRequest(Chars("Ahmet"), HalfPast(7), Chars("adventure"), SHORT, Missing)}

InitPrompt ==
    /\ pc = "idle"
    /\ env = [GEMINI_API_KEY |-> TRUE]
    /\ dbCount = 0
    /\ request = None
    /\ storyCount = -1
    /\ attempt = 0
    /\ lastError = <<>>
    /\ calls = <<>>
    /\ pending = {}
    /\ replies = <<>>
    /\ result = None
    /\ stored = <<>>
    /\ response = None
    /\ text \in {[kind |-> "prompt", request |-> r] : r \in PromptRequests}
    /\ verdict = None

CallBuildStoryPrompt ==
    /\ verdict = None
    /\ verdict' = [of |-> "buildStoryPrompt", result |-> buildStoryPrompt(text.request)]
    /\ UNCHANGED <<text, apiVars>>

\* validatePrompt(buildStoryPrompt(request)): the call throws when the
\* builder does.
CallValidatePrompt ==
    /\ verdict = None
    /\ \E built \in {buildStoryPrompt(text.request)} :
           verdict' = [of |-> "validatePrompt",
                       result |-> IF built.threw THEN built
                                  ELSE [threw |-> FALSE, prompt |-> built.prompt,
                                        validation |-> validatePrompt(built.prompt)]]
    /\ UNCHANGED <<text, apiVars>>

NextPrompt ==
    \/ CallBuildStoryPrompt
    \/ CallValidatePrompt

SpecPrompt == InitPrompt /\ [][NextPrompt]_vars

\* ---------------------------------------------------------------------
\* The guard and two of its sub-checks applied under several configurations.

\* The default rules with the violence rule lowered from block to flag.
FlaggedRules ==
    [i \in DOMAIN DEFAULT_GUARD_RULES |->
        IF DEFAULT_GUARD_RULES[i].id = "violence_keywords"
        THEN [DEFAULT_GUARD_RULES[i] EXCEPT !.severity = "flag"]
        ELSE DEFAULT_GUARD_RULES[i]]

\* Each guard alone, all of them, all but the blocked terms, and none.
GuardSets ==
    {{"blocked_terms"}, {"regex_patterns"}, {"length_check"}, {"repetition_check"},
     {"blocked_terms", "regex_patterns", "length_check", "repetition_check"},
     {"regex_patterns", "length_check", "repetition_check"}, {}}

Configs ==
    {[DEFAULT_CONFIG EXCEPT !.enabledGuards = guards, !.patterns = patterns] :
        guards \in GuardSets, patterns \in {DEFAULT_GUARD_RULES, FlaggedRules}}

\* More filler words than ten times ManyCopies.
MuchFiller == 90

ConfigTexts ==
    [lead : {<<>>}, word : Words, copies : {1, ManyCopies},
     filler : {FewWords, MinGuardWords, MuchFiller}, trail : {<<>>}]

InitConfig ==
    /\ pc = "idle"
    /\ env = [GEMINI_API_KEY |-> TRUE]
    /\ dbCount = 0
    /\ request = None
    /\ storyCount = -1
    /\ attempt = 0
    /\ lastError = <<>>
    /\ calls = <<>>
    /\ pending = {}
    /\ replies = <<>>
    /\ result = None
    /\ stored = <<>>
    /\ response = None
    /\ text \in {[kind |-> "configured", t |-> t, config |-> config] :
                    t \in ConfigTexts, config \in Configs}
    /\ verdict = None

CallCheckContentSafetyWith ==
    /\ verdict = None
    /\ verdict' = [of |-> "checkContentSafety",
                   result |-> checkContentSafety(TextOf(text.t), text.config)]
    /\ UNCHANGED <<text, apiVars>>

CallCheckRegexPatterns ==
    /\ verdict = None
    /\ verdict' = [of |-> "checkRegexPatterns",
                   result |-> checkRegexPatterns(TextOf(text.t), text.config.patterns)]
    /\ UNCHANGED <<text, apiVars>>

CallCheckRepetition ==
    /\ verdict = None
    /\ verdict' = [of |-> "checkRepetition", result |-> checkRepetition(TextOf(text.t))]
    /\ UNCHANGED <<text, apiVars>>

NextConfig ==
    \/ CallCheckContentSafetyWith
    \/ CallCheckRegexPatterns
    \/ CallCheckRepetition

SpecConfig == InitConfig /\ [][NextConfig]_vars

\* ---------------------------------------------------------------------
\* Concurrent requests of one user.  Every request is signed and valid and
\* passes the pre-check; pc, storyCount and response hold one value for each
\* request, dbCount is the one table they share.  generateStoryWithRetry is
\* taken by its outcome.

MaxRequests == 3

Concurrent == 1..MaxRequests

InitQuota ==
    /\ pc = [r \in Concurrent |-> "idle"]
    /\ env = [GEMINI_API_KEY |-> TRUE]
    /\ dbCount \in {RateLimit - 2, RateLimit - 1, RateLimit}
    /\ request = None
    /\ storyCount = [r \in Concurrent |-> -1]
    /\ attempt = 0
    /\ lastError = <<>>
    /\ calls = <<>>
    /\ pending = {}
    /\ replies = <<>>
    /\ result = None
    /\ stored = <<>>
    /\ response = [r \in Concurrent |-> None]
    /\ text = None
    /\ verdict = None

quotaUnchanged == <<env, request, attempt, lastError, calls, pending, replies, result,
                    stored, guardVars>>

\* The handler of request r answers.
RespondTo(r, status) ==
    /\ pc' = [pc EXCEPT ![r] = "done"]
    /\ response' = [response EXCEPT ![r] = [status |-> status, success |-> status = 200]]

\* The handler of request r from its arrival to the await of getUserStoryCount.
handlerArrives(r) ==
    /\ pc[r] = "idle"
    /\ pc' = [pc EXCEPT ![r] = "getUserStoryCount"]
    /\ UNCHANGED <<dbCount, storyCount, response, quotaUnchanged>>

\* getUserStoryCount resolves for request r: the count of the table at that
\* moment, or 0 when the query failed; at the limit the answer is 429.
getUserStoryCountResolves(r, queryFailed) ==
    /\ pc[r] = "getUserStoryCount"
    /\ \E count \in {IF queryFailed THEN 0 ELSE dbCount} :
       /\ storyCount' = [storyCount EXCEPT ![r] = count]
       /\ IF count >= RateLimit
          THEN RespondTo(r, 429)
          ELSE /\ pc' = [pc EXCEPT ![r] = "generateStory"]
               /\ UNCHANGED response
    /\ UNCHANGED <<dbCount, quotaUnchanged>>

\* generateStoryWithRetry returns for request r: a story, and the handler
\* calls storeStory, or a failure, and the handler answers 500.
generateStoryWithRetryReturns(r, success) ==
    /\ pc[r] = "generateStory"
    /\ IF success
       THEN /\ pc' = [pc EXCEPT ![r] = "storeStory"]
            /\ UNCHANGED response
       ELSE RespondTo(r, 500)
    /\ UNCHANGED <<dbCount, storyCount, quotaUnchanged>>

\* storeStory resolves for request r: one more row, and the answer is 200;
\* or it rejects, and the answer is 500.
storeStoryResolves(r, inserted) ==
    /\ pc[r] = "storeStory"
    /\ IF inserted
       THEN /\ dbCount' = dbCount + 1
            /\ RespondTo(r, 200)
       ELSE /\ UNCHANGED dbCount
            /\ RespondTo(r, 500)
    /\ UNCHANGED <<storyCount, quotaUnchanged>>

NextQuota ==
    \/ \E r \in Concurrent : handlerArrives(r)
    \/ \E r \in Concurrent, queryFailed \in BOOLEAN : getUserStoryCountResolves(r, queryFailed)
    \/ \E r \in Concurrent, success \in BOOLEAN : generateStoryWithRetryReturns(r, success)
    \/ \E r \in Concurrent, inserted \in BOOLEAN : storeStoryResolves(r, inserted)

SpecQuota == InitQuota /\ [][NextQuota]_vars
\* ---------------------------------------------------------------------
\* generateStoryWithRetry on its own, under the condition that every call
\* of gemini.generateStory it awaits settles.  The request and what the two
\* calls will do when awaited are drawn at the start and kept in text; calls
\* holds the attempts without their prompts.  The requests are of length
\* "short".

RetryRequests ==
    { Object(StoryRequest(Chars("Elif"), Chars("animals"))
             @@ (Chars("elements") :> JArray(<<JString(Chars("k") \o <<U00F6>> \o Chars("pek")), JString(Chars("orman"))>>))),
      Object(StoryRequest(Chars("Ahmet"), Chars("adventure"))),
      Object(StoryRequest(Chars("Ahmet"), Chars("adventure"))
             @@ (Chars("elements") :> JString(Chars("kedi")))) }

\* The call resolves with the reply of that name: validateStoryResponse of
\* the reply and what the loop makes of it.
Resolved(name) ==
    LET validation == validateStoryResponse(GeminiReplies[name].content, SHORT)
    IN  [threw |-> FALSE,
         reply |-> name,
         valid |-> validation.valid /\ validation.data # NoData,
         recoverable |-> isRecoverableError(validation.errors),
         message |-> Join([i \in DOMAIN validation.errors |->
                               validation.errors[i].message], Chars(", "))]

\* The call rejects with the error the client makes of that of the SDK.
Rejected(sdkError) ==
    [threw |-> TRUE, message |-> generateStoryCatch(sdkError)]

Outcomes ==
    {Resolved(name) : name \in DOMAIN GeminiReplies}
    \cup {Rejected(sdkError) : sdkError \in SdkErrors}

InitRetry ==
    /\ pc = "idle"
    /\ env = [GEMINI_API_KEY |-> TRUE]
    /\ dbCount = 0
    /\ \E storyRequest \in RetryRequests, first \in Outcomes, second \in Outcomes :
        /\ request = [body |-> storyRequest]
        /\ text = [kind |-> "retry",
                   builderThrows |-> buildStoryPrompt(storyRequest).threw,
                   outcomes |-> <<first, second>>]
    /\ storyCount = 0
    /\ attempt = 0
    /\ lastError = <<>>
    /\ calls = <<>>
    /\ pending = {}
    /\ replies = <<>>
    /\ result = None
    /\ stored = <<>>
    /\ response = None
    /\ verdict = None

retryUnchanged == <<env, dbCount, request, storyCount, pending, stored, response, guardVars>>

\* The loop from the top of pass a, up to the next call of
\* gemini.generateStory.  buildRetryPrompt throws when buildStoryPrompt does.
RECURSIVE RetryPass(_, _)
RetryPass(a, err) ==
    IF a >= MaxAttempts THEN [exhausted |-> TRUE, attempt |-> a, lastError |-> err]
    ELSE IF text.builderThrows
         THEN RetryPass(a + 1, Chars("request.elements.join is not a function"))
         ELSE [exhausted |-> FALSE, attempt |-> a, lastError |-> err]

\* The loop goes on from the top of pass a, or is left with the failure.
RetryContinue(a, err) ==
    \E step \in {RetryPass(a, err)} :
        /\ attempt' = step.attempt
        /\ lastError' = step.lastError
        /\ IF step.exhausted
           THEN /\ result' = FailureResult(step.lastError)
                /\ pc' = "returned"
                /\ UNCHANGED calls
           ELSE /\ calls' = Append(calls, [attempt |-> step.attempt])
                /\ pc' = "generateStory"
                /\ UNCHANGED result

\* What the awaited call does.
Awaited == text.outcomes[Len(calls)]

\* generateStoryWithRetry is called: the client is made and the loop entered.
generateStoryWithRetry ==
    /\ pc = "idle"
    /\ RetryContinue(0, <<>>)
    /\ UNCHANGED <<replies, retryUnchanged>>

\* For comparison: a pass without the catch; the rejection leaves
\* generateStoryWithRetry, which returns nothing.
RejectsUncaught ==
    /\ pc = "generateStory"
    /\ Awaited.threw
    /\ replies' = Append(replies, Awaited)
    /\ pc' = "thrown"
    /\ UNCHANGED <<attempt, lastError, calls, result, retryUnchanged>>

\* The awaited call resolves with a reply: a story is returned, the loop is
\* left, or it goes on to the next pass.
generateStoryResolves ==
    /\ pc = "generateStory"
    /\ ~Awaited.threw
    /\ replies' = Append(replies, Awaited)
    /\ IF Awaited.valid
       THEN /\ result' = [success |-> TRUE, reply |-> Awaited.reply]
            /\ pc' = "returned"
            /\ UNCHANGED <<attempt, lastError, calls>>
       ELSE IF ~Awaited.recoverable
       THEN /\ result' = FailureResult(Awaited.message)
            /\ lastError' = Awaited.message
            /\ pc' = "returned"
            /\ UNCHANGED <<attempt, calls>>
       ELSE RetryContinue(attempt + 1, Awaited.message)
    /\ UNCHANGED retryUnchanged

\* The awaited call rejects: the message is kept and the loop goes on.
generateStoryRejects ==
    /\ pc = "generateStory"
    /\ Awaited.threw
    /\ replies' = Append(replies, Awaited)
    /\ RetryContinue(attempt + 1, Awaited.message)
    /\ UNCHANGED retryUnchanged

NextRetry ==
    \/ generateStoryWithRetry
    \/ generateStoryResolves
    \/ generateStoryRejects

\* Every call of gemini.generateStory that is awaited settles.
SpecRetry ==
    InitRetry /\ [][NextRetry]_vars /\ WF_vars(generateStoryResolves \/ generateStoryRejects)


(***************************************************************************)
(* Properties of generateStoryWithRetry and of the handler                 *)
(***************************************************************************)
\* The error text the loop records for a settled call: the thrown message,
\* or the messages of the validation joined by ", ".
ErrorText(reply) ==
    IF reply.threw THEN reply.message
    ELSE Join([i \in DOMAIN reply.validation.errors |->
                  reply.validation.errors[i].message], Chars(", "))

\* The codes of the errors a settled call was validated with.
Codes(reply) ==
    {reply.validation.errors[i].code : i \in DOMAIN reply.validation.errors}

\* C1: the generative model is called at most twice per request; the first
\* call is attempt 0 with buildStoryPrompt(request), a second call is
\* attempt 1 with buildRetryPrompt(request, lastError), lastError being the
\* error text recorded from attempt 0.
C1_AtMostTwoCalls ==
    /\ Len(calls) <= 2
    /\ Len(calls) >= 1 =>
          calls[1] = [attempt |-> 0, prompt |-> buildStoryPrompt(request.body).prompt]
    /\ Len(calls) >= 2 =>
          /\ Len(replies) >= 1
          /\ calls[2] = [attempt |-> 1,
                         prompt |-> buildRetryPrompt(request.body,
                                                     ErrorText(replies[1])).prompt]

C1_SecondCallMade ==
    /\ Len(calls) = 2
    /\ calls[2].attempt = 1
    /\ ~replies[1].threw

\* C2 as stated: a CONTENT_SAFETY_FAILED error on attempt 0, whatever
\* accompanies it, ends the loop without a call for attempt 1.
C2_SafetyFailureNeverRetried ==
    (/\ Len(replies) >= 1
     /\ ~replies[1].threw
     /\ "CONTENT_SAFETY_FAILED" \in Codes(replies[1]))
    => Len(calls) = 1

\* C2, amended: attempt 0 is not retried exactly when its validation failed
\* and none of its errors has a code among INVALID_JSON, WORD_COUNT_MISMATCH,
\* INSUFFICIENT_STRUCTURE and NOT_STORY_FORMAT; then the loop returns failure
\* at once.  A safety, schema or language error accompanied by an error with
\* one of these codes is retried.
C2_RetryIffSomeRecoverableCode ==
    (/\ Len(replies) >= 1
     /\ ~replies[1].threw
     /\ ~replies[1].validation.valid)
    => IF Codes(replies[1]) \cap {"INVALID_JSON", "WORD_COUNT_MISMATCH",
                                  "INSUFFICIENT_STRUCTURE", "NOT_STORY_FORMAT"} = {}
       THEN /\ Len(calls) = 1
            /\ pc = "done"
            /\ result # None
            /\ ~result.success
            /\ stored = <<>>
       ELSE Len(calls) = 2

C2_SafetyFailureAlone ==
    /\ Len(replies) = 1
    /\ ~replies[1].threw
    /\ Codes(replies[1]) = {"CONTENT_SAFETY_FAILED"}
    /\ Len(calls) = 1
    /\ pc = "done"

\* C3: when attempt 0 returns text that is not JSON and attempt 1 returns a
\* valid story, the result is a success whose title, content and wordCount
\* are those of attempt 1's validated data, after exactly two calls.
C3_RetryAfterMalformedJSON ==
    (/\ Len(replies) >= 1
     /\ ~replies[1].threw
     /\ Codes(replies[1]) = {"INVALID_JSON"})
    => /\ Len(calls) = 2
       /\ (Len(replies) = 2 /\ ~replies[2].threw /\ replies[2].validation.valid)
          => /\ result # None
             /\ result.success
             /\ result.story.title = replies[2].validation.data.title
             /\ result.story.content = replies[2].validation.data.content
             /\ result.story.wordCount = replies[2].validation.data.wordCount

C3_SuccessOnRetry ==
    /\ Len(replies) = 2
    /\ ~replies[1].threw
    /\ Codes(replies[1]) = {"INVALID_JSON"}
    /\ ~replies[2].threw
    /\ replies[2].validation.valid
    /\ result # None
    /\ result.success

\* C4: a throwing call of the generative model is not propagated: its
\* message becomes the last error, a throw on attempt 0 is followed by
\* attempt 1 with a retry prompt that carries the message, and a throw on
\* the last attempt gives a result with success = false.
C4_ThrowIsCaught ==
    /\ (Len(replies) >= 1 /\ replies[1].threw)
       => /\ Len(calls) = 2
          /\ calls[2].attempt = 1
          /\ Includes(calls[2].prompt, <<U00D6>> \o Chars("NCEKI HATA: ") \o replies[1].message)
          /\ Len(replies) = 1 => lastError = replies[1].message
    /\ (Len(replies) = 2 /\ replies[2].threw)
       => /\ pc = "done"
          /\ lastError = replies[2].message
          /\ result # None
          /\ ~result.success
          /\ response = [status |-> 500, success |-> FALSE, error |-> result.error]

C4_ThrowOnBothAttempts ==
    /\ Len(replies) = 2
    /\ replies[1].threw
    /\ replies[2].threw
    /\ pc = "done"

C6_NoPartialSuccess ==
    result # None
    => /\ result.success <=> "story" \in DOMAIN result
       /\ result.success <=> "metadata" \in DOMAIN result
       /\ result.success
          => /\ replies # <<>>
             /\ ~replies[Len(replies)].threw
             /\ replies[Len(replies)].validation.valid
             /\ replies[Len(replies)].validation.errors = <<>>
             /\ result.story.content = replies[Len(replies)].validation.data.content
             /\ quickSafetyCheck(result.story.content)
             /\ countWords(result.story.content)
                   >= getExpectedWordCountRange(result.story.length).min
             /\ countWords(result.story.content)
                   <= getExpectedWordCountRange(result.story.length).max

C6_StoryReturned ==
    /\ result # None
    /\ result.success
    /\ Len(replies) = 2

\* C7: the two attempts never overlap: the call of attempt 1 is issued only
\* after the call of attempt 0 has settled and its reply has been validated.
C7_AttemptsNeverOverlap ==
    /\ Cardinality(pending) <= 1
    /\ 1 \in pending
       => /\ 0 \notin pending
          /\ Len(replies) >= 1
          /\ replies[1].attempt = 0
          /\ replies[1].threw \/ "validation" \in DOMAIN replies[1]
    /\ Len(calls) <= Len(replies) + 1

C7_SecondCallPending ==
    /\ pending = {1}
    /\ Len(replies) = 1

\* The request carries a token that was signed with the configured secret.
HasSignedToken ==
    \E token \in ValidTokens :
        request.headers.authorization = JString(Chars("Bearer ") \o token)

\* The body passed validateUserRequest.
BodyPassed ==
    /\ request.body.t = "object"
    /\ validateUserRequest(request.body).valid

\* The child name and the elements of the body passed preCheckUserInput.
InputPassed ==
    /\ ~UserInput(request.body).threw
    /\ preCheckUserInput(UserInput(request.body).input).safe

SameLetter(a, b) ==
    \/ a = b
    \/ toLowerCase(<<a>>) = toLowerCase(<<b>>)
    \/ {a, b} = {"i", U0130}
    \/ {a, b} = {"I", U0131}

\* The text contains the term, written in any letter case.
ContainsAnyCase(content, term) ==
    \E i \in 1..(Len(content) - Len(term) + 1) :
        \A j \in 1..Len(term) : SameLetter(content[i + j - 1], term[j])

\* C9: a text that contains a blocked term in any letter case, the capitals
\* of the Turkish letters included, is not safe, and the term is among the
\* blockedTerms returned.
C9_BlockedTermAnyCase ==
    (verdict # None /\ verdict.of = "checkContentSafety")
    => \E content \in {TextOf(text)} :
           \A k \in DOMAIN DEFAULT_BLOCKED_TERMS :
               ContainsAnyCase(content, DEFAULT_BLOCKED_TERMS[k])
               => /\ ~verdict.result.safe
                  /\ \E n \in DOMAIN verdict.result.blockedTerms :
                         verdict.result.blockedTerms[n] = DEFAULT_BLOCKED_TERMS[k]

\* The words of a text: its maximal runs of characters that are not white
\* space.
WordsIn(content) == SelectSeq(Split(content, WhiteSpace), LAMBDA w : w # <<>>)

\* C10: a text of 50 to 1000 words with at least 3 non-empty segments
\* between '.', '!' and '?', no blocked term, no match of a rule of severity
\* block and no word over the repetition threshold is safe.
C10_CleanTextIsSafe ==
    (verdict # None /\ verdict.of = "checkContentSafety")
    => \E content \in {TextOf(text)} :
       \E words \in {WordsIn(content)} :
           (/\ Len(words) >= 50
            /\ Len(words) <= 1000
            /\ Len(SelectSeq(Split(content, SentenceEnd), NonBlank)) >= 3
            /\ ~\E k \in DOMAIN DEFAULT_BLOCKED_TERMS :
                   ContainsAnyCase(content, DEFAULT_BLOCKED_TERMS[k])
            /\ checkRegexPatterns(content, DEFAULT_GUARD_RULES).safe
            /\ checkRepetition(content).safe)
           => verdict.result.safe

(***************************************************************************)
(* Properties of the validator                                             *)
(***************************************************************************)
\* validateStoryResponse was applied to the text drawn.
Validated == verdict # None /\ verdict.of = "validateStoryResponse"

\* The codes of the errors of a result, in their order.
CodesOf(errors) == [i \in DOMAIN errors |-> errors[i].code]

\* C11: for a text that is not JSON, the empty text included,
\* validateStoryResponse returns valid = false, exactly one error, with code
\* INVALID_JSON and field 'response', and no data.
C11_InvalidJSON ==
    (Validated /\ text.kind = "raw" /\ text.raw \in NotJSONTexts)
    => /\ ~verdict.result.valid
       /\ Len(verdict.result.errors) = 1
       /\ verdict.result.errors[1].code = "INVALID_JSON"
       /\ verdict.result.errors[1].field = Chars("response")
       /\ verdict.result.data = NoData

C11_EmptyTextValidated ==
    /\ Validated
    /\ text.kind = "raw"
    /\ text.raw = <<>>
    /\ CodesOf(verdict.result.errors) = <<"INVALID_JSON">>

\* The value a field of the text is written as, read on its own.
FieldToken(key) == Tokens(text.fields[key])[1]

\* The number of defects the schema sees in a field: a value of the wrong
\* type is one defect; a string can be too short, too long and blank; a
\* number can be too small, too large and not whole.
StringDefects(tok, lo, hi) ==
    IF tok.k # "string" THEN 1
    ELSE (IF Len(tok.v) < lo THEN 1 ELSE 0) + (IF Len(tok.v) > hi THEN 1 ELSE 0)
         + (IF \A i \in DOMAIN tok.v : tok.v[i] \in WhiteSpace THEN 1 ELSE 0)

NumberDefects(tok) ==
    IF tok.k # "number" THEN 1
    ELSE (IF tok.v < 50 THEN 1 ELSE 0)
         + (IF tok.v > 800 \/ (tok.v = 800 /\ tok.half) THEN 1 ELSE 0)
         + (IF tok.half THEN 1 ELSE 0)

Defects(key) ==
    CASE key = "title" -> StringDefects(FieldToken(key), 5, 100)
      [] key = "content" -> StringDefects(FieldToken(key), 50, 3000)
      [] key = "wordCount" -> NumberDefects(FieldToken(key))
      [] key = "theme" ->
            IF FieldToken(key).k = "string" /\ FieldToken(key).v \in StoryTheme
            THEN 0 ELSE 1
      [] OTHER ->
            IF FieldToken(key).k = "string" /\ FieldToken(key).v \in {Chars("tr"), Chars("en")}
            THEN 0 ELSE 1

FieldKeys == {"title", "content", "wordCount", "theme", "language"}

\* The number of errors of the result that name the field.
ErrorsOn(key) ==
    Cardinality({i \in DOMAIN verdict.result.errors :
                    verdict.result.errors[i].field = Chars(key)})

\* The text is an object with five fields of which at least one breaks the
\* schema, and validateStoryResponse was applied to it.
SchemaViolated ==
    /\ Validated
    /\ text.kind = "fields"
    /\ \E key \in FieldKeys : Defects(key) > 0

\* C12 as stated: a text that breaks the schema gets exactly one error for
\* each field that breaks it, all with code SCHEMA_VALIDATION_ERROR, and no
\* data.
C12_OneErrorPerField ==
    SchemaViolated
    => /\ ~verdict.result.valid
       /\ verdict.result.data = NoData
       /\ \A i \in DOMAIN verdict.result.errors :
              verdict.result.errors[i].code = "SCHEMA_VALIDATION_ERROR"
       /\ \A key \in FieldKeys : ErrorsOn(key) = (IF Defects(key) > 0 THEN 1 ELSE 0)

\* C12, amended: a text that breaks the schema gets one error for each
\* defect the schema finds, so a field with several defects (a title that
\* is too short and blank, a word count that is too small and not whole)
\* gets several; every error has code SCHEMA_VALIDATION_ERROR, there is no
\* data, and no code of a later step appears.  A JSON value that is not an
\* object gets one error, on the field 'unknown'.
C12_OneErrorPerDefect ==
    /\ SchemaViolated
       => /\ ~verdict.result.valid
          /\ verdict.result.data = NoData
          /\ \A i \in DOMAIN verdict.result.errors :
                 verdict.result.errors[i].code = "SCHEMA_VALIDATION_ERROR"
          /\ \A key \in FieldKeys : ErrorsOn(key) = Defects(key)
          /\ Len(verdict.result.errors) = Defects("title") + Defects("content")
                + Defects("wordCount") + Defects("theme") + Defects("language")
    /\ (Validated /\ text.kind = "raw"
          /\ text.raw \in {Chars("null"), Chars("[]"), Chars("[1,") \o <<"\"">> \o Chars("a") \o <<"\"">> \o Chars("]"), Chars("42"), <<"\"">> \o Chars("text") \o <<"\"">>, Chars("true")})
       => /\ ~verdict.result.valid
          /\ verdict.result.data = NoData
          /\ Len(verdict.result.errors) = 1
          /\ verdict.result.errors[1].code = "SCHEMA_VALIDATION_ERROR"
          /\ verdict.result.errors[1].field = Chars("unknown")

C12_BlankShortTitle ==
    /\ SchemaViolated
    /\ Defects("title") = 2
    /\ Len(verdict.result.errors) = 2

\* The result carries data: the five fields of a story.
HasData(r) ==
    /\ r.data # NoData
    /\ DOMAIN r.data = {"title", "content", "wordCount", "theme", "language"}

\* C13: the result of validateStoryResponse has valid = (errors is empty),
\* and carries data exactly when it is valid; the data are the title,
\* content, wordCount, theme and language that were parsed.
C13_ValidIffNoErrors ==
    Validated
    => /\ verdict.result.valid <=> verdict.result.errors = <<>>
       /\ verdict.result.valid <=> HasData(verdict.result)
       /\ ~verdict.result.valid => verdict.result.data = NoData
       /\ (verdict.result.valid /\ text.kind = "story")
          => verdict.result.data = StoryObject(text.story.c, text.story.declared)
       /\ (verdict.result.valid /\ text.kind = "fields")
          => \A key \in FieldKeys : verdict.result.data[key] = FieldToken(key).v

C13_ValidStory ==
    /\ Validated
    /\ text.kind = "story"
    /\ verdict.result.valid
    /\ verdict.result.data.wordCount # countWords(verdict.result.data.content)

\* The content of the story the text describes.
DrawnContent == ContentOf(text.story.c)

\* <<code>> when the defect is there, <<>> when it is not.
CodeIf(defect, code) == IF defect THEN <<code>> ELSE <<>>

\* The codes expected for a content, each from its own check, in the order of
\* the steps: the guard, the word count, the quality, the language.
ExpectedCodes(content, expectedLength) ==
    CodeIf(~checkContentSafety(content, DEFAULT_CONFIG).safe, "CONTENT_SAFETY_FAILED")
    \o CodeIf(countWords(content) \notin
                  getExpectedWordCountRange(expectedLength).min
                  ..getExpectedWordCountRange(expectedLength).max,
              "WORD_COUNT_MISMATCH")
    \o CodeIf(Len(SelectSeq(Split(content, SentenceEnd), NonBlank)) < 3,
              "INSUFFICIENT_STRUCTURE")
    \o CodeIf(ScoreExceeds(calculateRepetitionScore(content), 30),
              "EXCESSIVE_REPETITION")
    \o CodeIf("NOT_STORY_FORMAT"
                  \in Range(CodesOf(validateContentQuality(content,
                                                           DEFAULT_VALIDATION_CONFIG))),
              "NOT_STORY_FORMAT")
    \o CodeIf(~\E i \in DOMAIN content : content[i] \in TurkishChars,
              "NO_TURKISH_CHARACTERS")
    \o CodeIf("NOT_TURKISH_LANGUAGE" \in Range(CodesOf(validateTurkishContent(content))),
              "NOT_TURKISH_LANGUAGE")

\* C14: for a text that conforms to the schema, the guard, the word count,
\* the quality and the language are all checked on the same content, and
\* the errors are those of every check, in the order of the steps; each
\* code is there exactly when its own check fails.
C14_ErrorsAccumulate ==
    (Validated /\ text.kind = "story")
    => \E content \in {DrawnContent} :
           CodesOf(verdict.result.errors)
               = ExpectedCodes(content, text.expectedLength)

C14_ThreeStepsFail ==
    /\ Validated
    /\ text.kind = "story"
    /\ CodesOf(verdict.result.errors)
          = <<"CONTENT_SAFETY_FAILED", "WORD_COUNT_MISMATCH", "INSUFFICIENT_STRUCTURE",
              "NOT_STORY_FORMAT">>

\* The range of words the description gives for a length.
DescribedRange(length) ==
    CASE length = SHORT -> 80..220
      [] length = MEDIUM -> 180..420
      [] length = LONG -> 350..650

\* The errors of a verdict that carry the code.
ErrorsCoded(code) == SelectSeq(verdict.result.errors, LAMBDA error : error.code = code)

\* C15: WORD_COUNT_MISMATCH, on the field wordCount, is reported exactly
\* when the number of words of the content is outside the inclusive range of
\* the expected length (short 80..220, medium 180..420, long 350..650); the
\* number is that of the words written in the content, whatever the
\* wordCount field declares.
C15_WordCountRange ==
    (Validated /\ text.kind = "story")
    => /\ Len(ErrorsCoded("WORD_COUNT_MISMATCH"))
             = IF text.story.c.words \in DescribedRange(text.expectedLength) THEN 0 ELSE 1
       /\ \A i \in DOMAIN verdict.result.errors :
              verdict.result.errors[i].code = "WORD_COUNT_MISMATCH"
              => verdict.result.errors[i].field = Chars("wordCount")

C15_OneWordTooMany ==
    /\ Validated
    /\ text.kind = "story"
    /\ text.expectedLength = SHORT
    /\ text.story.c.words = 221
    /\ text.story.declared = 100
    /\ CodesOf(verdict.result.errors) = <<"WORD_COUNT_MISMATCH">>

\* quickValidateJSON was applied to the text drawn.
QuicklyValidated == verdict # None /\ verdict.of = "quickValidateJSON"

\* C19: the text JSON.stringify gives for an object that conforms to the
\* schema is valid, with the object as data and no error; a text that is no
\* JSON, or that describes something the schema rejects, is not valid, with
\* an error and no data.
C19_RoundTrip ==
    QuicklyValidated
    => /\ text.kind = "story"
          => verdict.result
                 = [valid |-> TRUE,
                    data |-> StoryObject(text.story.c, text.story.declared),
                    error |-> NoData]
       /\ (text.kind = "raw" /\ text.raw \in NotJSONTexts)
          => verdict.result
                 = [valid |-> FALSE, data |-> NoData, error |-> Chars("Invalid JSON format")]
       /\ (text.kind = "raw" /\ text.raw \in OtherJSONTexts)
          => /\ ~verdict.result.valid
             /\ verdict.result.data = NoData
             /\ verdict.result.error # NoData
       /\ text.kind = "fields"
          => /\ verdict.result.valid <=> \A key \in FieldKeys : Defects(key) = 0
             /\ verdict.result.valid
                => /\ \A key \in FieldKeys : verdict.result.data[key] = FieldToken(key).v
                   /\ verdict.result.error = NoData
             /\ ~verdict.result.valid
                => /\ verdict.result.data = NoData
                   /\ verdict.result.error # NoData

\* A content with quotes and a backslash came back as written.
C19_QuotesCameBack ==
    /\ QuicklyValidated
    /\ text.kind = "story"
    /\ text.story.c.cycle = "said"
    /\ verdict.result.valid
    /\ verdict.result.data.content = ContentOf(text.story.c)
    /\ \E i \in DOMAIN verdict.result.data.content :
           verdict.result.data.content[i] = Backslash

\* isRecoverableError was applied to the list drawn.
RecoverableAsked == verdict # None /\ verdict.of = "isRecoverableError"

\* C16: a list of errors is recoverable exactly when one of its errors has
\* the code INVALID_JSON, WORD_COUNT_MISMATCH, INSUFFICIENT_STRUCTURE or
\* NOT_STORY_FORMAT, wherever it stands and whatever its field and message
\* say; the empty list and the lists of other codes are not.
C16_RecoverableIffCode ==
    RecoverableAsked
    => verdict.result
           = \E i \in DOMAIN text.errors :
                 text.errors[i].code \in {"INVALID_JSON", "WORD_COUNT_MISMATCH",
                                          "INSUFFICIENT_STRUCTURE", "NOT_STORY_FORMAT"}

\* The second error alone makes the list recoverable, and the message of
\* the first, which spells a recoverable code, does not.
C16_SecondErrorCounts ==
    /\ RecoverableAsked
    /\ Len(text.errors) = 2
    /\ text.errors[1].code = "SCHEMA_VALIDATION_ERROR"
    /\ text.errors[1].message = Chars("INVALID_JSON")
    /\ text.errors[2].code = "NOT_STORY_FORMAT"
    /\ verdict.result

\* preCheckUserInput was applied to the text drawn.
PreChecked == verdict # None /\ verdict.of = "preCheckUserInput"

\* The lowered text contains the term, lowered the same way: the text
\* contains the term when the case of the letters is ignored.
ContainsLowered(lowerInput, term) == Includes(lowerInput, toLowerCase(term))

RequestValidated == verdict # None /\ verdict.of = "validateUserRequest"

\* C18: an entry point reports a failure in what it returns and never
\* throws, whatever it is given, a missing or null request body included.
C18_NeverThrows == RequestValidated => ~verdict.result.threw

\* The codes expected for a body, field by field as the description states
\* them: a name that is a string and not blank, an age that is a whole
\* number from 3 to 18, a theme and a length of their enumerations.
StatedCodes(body) ==
    CodeIf(~(Get(body, Chars("childName")).t = "string" /\ NonBlank(Get(body, Chars("childName")).v)),
           "MISSING_CHILD_NAME")
    \o CodeIf(~(/\ Get(body, Chars("age")).t = "number"
                /\ ~Get(body, Chars("age")).half
                /\ Get(body, Chars("age")).v \in 3..18),
              "INVALID_AGE")
    \o CodeIf(~(Get(body, Chars("theme")).t = "string" /\ Get(body, Chars("theme")).v \in StoryTheme),
              "INVALID_THEME")
    \o CodeIf(~(Get(body, Chars("length")).t = "string"
                /\ Get(body, Chars("length")).v \in {Chars("short"), Chars("medium"), Chars("long")}),
              "INVALID_LENGTH")

\* C20: a body is valid exactly when its name is a string that is not
\* blank, its age a whole number from 3 to 18, its theme one of the eight
\* themes and its length short, medium or long; each field that fails gives
\* its one error, and the fields that fail are all reported.
C20_ValidIffAsStated ==
    (RequestValidated /\ ~verdict.result.threw)
    => /\ verdict.result.valid <=> StatedCodes(text.request) = <<>>
       /\ CodesOf(verdict.result.errors) = StatedCodes(text.request)

(***************************************************************************)
(* Properties of the prompt builder                                        *)
(***************************************************************************)
\* buildStoryPrompt was applied to the request drawn and returned a prompt.
Built == verdict # None /\ verdict.of = "buildStoryPrompt" /\ ~verdict.result.threw

\* The request has a list of elements that is not empty.
ListsElements(body) ==
    /\ HasField(body, Chars("elements"))
    /\ Field(body, Chars("elements")).t = "array"
    /\ Len(Field(body, Chars("elements")).v) > 0

\* The index at which the section headed by head begins in the prompt, 0
\* when the prompt has no such section.
SectionAt(prompt, head) == IndexOf(prompt, head)

\* C21: the prompt contains the name of the child as supplied, the age in
\* decimal, the description of the theme and the word JSON; it contains
\* the elements joined by ", " when the request lists some, and no line of
\* elements when it lists none; the sections added to the template come in
\* the order: age group, elements, length, safety rules, JSON example.
C21_PromptContainsInputs ==
    Built
    => \E body \in {text.request} : \E prompt \in {verdict.result.prompt} :
           /\ Includes(prompt, Field(body, Chars("childName")).v)
           /\ Includes(prompt, NumberToString(Field(body, Chars("age"))))
           /\ Includes(prompt, DEFAULT_TEMPLATE.themePrompts[Field(body, Chars("theme")).v])
           /\ Includes(prompt, Chars("JSON"))
           /\ ListsElements(body)
              => Includes(prompt,
                          Chars("Hikayede bu ") \o <<U00F6, U011F>> \o Chars("eleri de dahil et: ")
                          \o Join(ElementStrings(Field(body, Chars("elements"))), Chars(", ")))
           /\ ~ListsElements(body) => ~Includes(prompt, Chars("Hikayede bu ") \o <<U00F6, U011F>> \o Chars("eleri de dahil et"))
           /\ \E order \in {<<SectionAt(prompt, <<"\n", "\n">> \o Chars("Ya") \o <<U015F>> \o Chars(" grubu ") \o <<U00F6>> \o Chars("zel talimatlar") \o <<U0131>> \o Chars(": ")),
                              SectionAt(prompt, <<"\n", "\n">> \o Chars("Hikaye uzunlu") \o <<U011F>> \o Chars("u: ")),
                              SectionAt(prompt, <<"\n", "\n">> \o Chars("G") \o <<U00DC>> \o Chars("VENLIK KURALLARI:")),
                              SectionAt(prompt, <<"\n", "\n">> \o Chars("Cevab") \o <<U0131>> \o Chars("n") \o <<U0131>> \o Chars(" ") \o <<U015F>> \o Chars("u JSON format") \o <<U0131>> \o Chars("nda ver:"))>>} :
                  /\ 0 < order[1] /\ order[1] < order[2]
                  /\ order[2] < order[3] /\ order[3] < order[4]
                  /\ ListsElements(body)
                     => \E at \in {SectionAt(prompt, <<"\n", "\n">> \o Chars("Hikayede bu ") \o <<U00F6, U011F>> \o Chars("eleri de dahil et: "))} :
                            order[1] < at /\ at < order[2]

\* validatePrompt was applied to the prompt of the request drawn.
PromptValidated == verdict # None /\ verdict.of = "validatePrompt"

\* C22: for a request that validateUserRequest accepts, validatePrompt of
\* the built prompt is valid with no error: the prompt has from 100 to 2000
\* characters, contains JSON and contains a marker of a child or a story.
C22_BuiltPromptIsValid ==
    (PromptValidated /\ validateUserRequest(text.request).valid)
    => /\ ~verdict.result.threw
       /\ verdict.result.validation = [valid |-> TRUE, errors |-> <<>>]
       /\ Len(verdict.result.prompt) \in 100..2000

(***************************************************************************)
(* Properties of the guard under a configuration                           *)
(***************************************************************************)
\* checkContentSafety was applied to the text under the configuration drawn.
Configured == verdict # None /\ verdict.of = "checkContentSafety"

\* C23: blockedTerms is the list of the configured blocked terms that occur
\* in the text, whatever the other sub-checks find, and it is empty whenever
\* safe is true.
C23_BlockedTermsOfVerdict ==
    Configured
    => \E lowerContent \in {toLowerCase(TextOf(text.t))} :
           /\ verdict.result.blockedTerms
                 = SelectSeq(text.config.blockedTerms,
                             LAMBDA term : ContainsLowered(lowerContent, term))
           /\ verdict.result.safe => verdict.result.blockedTerms = <<>>

\* checkRepetition was applied to the text drawn.
RepetitionChecked == verdict # None /\ verdict.of = "checkRepetition"

\* Some token of more than 3 characters occurs more than 5 times and more
\* often than once in ten tokens.
RepeatsTooMuch(tokens) ==
    \E i \in DOMAIN tokens :
        /\ Len(tokens[i]) > 3
        /\ Occurrences(tokens, tokens[i]) > 5
        /\ Occurrences(tokens, tokens[i]) * 10 > Len(tokens)

\* C26: the repetition sub-check is unsafe exactly when some token of the
\* lowered text, cut at white space, has more than 3 characters, occurs more
\* than 5 times and makes up more than 10% of the tokens.
C26_UnsafeIffRepeated ==
    RepetitionChecked
    => \E tokens \in {Split(toLowerCase(TextOf(text.t)), WhiteSpace)} :
           ~verdict.result.safe <=> RepeatsTooMuch(tokens)

\* checkRegexPatterns was applied to the text with the rules drawn.
RulesChecked == verdict # None /\ verdict.of = "checkRegexPatterns"

\* The rules of the list that match the text.
MatchingRules(content, patterns) ==
    {r \in DOMAIN patterns : HasMatch(content, patterns[r].pattern)}

\* Some rule of severity block matches the text.
BlockRuleMatches(content, patterns) ==
    \E r \in MatchingRules(content, patterns) : patterns[r].severity = "block"

\* C27: the scan of the rules is unsafe exactly when a rule of severity
\* block matches; every rule that matches adds one issue, and a match of a
\* warn or flag rule makes neither the scan nor the verdict unsafe: the
\* verdict is safe exactly when every enabled guard is, the scan counting
\* as unsafe for its block rules only.
C27_BlockRulesDecide ==
    /\ RulesChecked
       => \E content \in {TextOf(text.t)} :
              /\ ~verdict.result.safe <=> BlockRuleMatches(content, text.config.patterns)
              /\ Len(verdict.result.issues)
                    = Cardinality(MatchingRules(content, text.config.patterns))
    /\ Configured
       => \E content \in {TextOf(text.t)} :
              verdict.result.safe
              <=> /\ "blocked_terms" \in text.config.enabledGuards
                     => checkBlockedTerms(content, text.config.blockedTerms).safe
                  /\ "regex_patterns" \in text.config.enabledGuards
                     => ~BlockRuleMatches(content, text.config.patterns)
                  /\ "length_check" \in text.config.enabledGuards
                     => checkContentLength(content).safe
                  /\ "repetition_check" \in text.config.enabledGuards
                     => checkRepetition(content).safe

\* A keyword of the violence rule, the rule lowered to flag: an issue and a
\* safe scan.
C27_FlagRuleOnlyWarns ==
    /\ RulesChecked
    /\ text.t.word = Chars("zarar")
    /\ text.config.patterns = FlaggedRules
    /\ Len(verdict.result.issues) > 0
    /\ verdict.result.safe

\* C28: a verdict that is not safe names at least one category.
C28_RejectionNamesCategory ==
    (verdict # None /\ verdict.of \in {"checkContentSafety", "preCheckUserInput"}
     /\ ~verdict.result.safe)
    => verdict.result.categories # <<>>

(***************************************************************************)
(* Properties of the store and of the quota                                *)
(***************************************************************************)
\* The handler answers in this step.
Answers == response = None /\ response' # None

\* C24: the handler answers 200 with a story only in the step in which
\* storeStory completes for that story, the story carrying the id and the
\* creation time it was stored with; when storeStory fails the answer is 500
\* and carries no story.
C24_StoredBeforeAnswered ==
    [][Answers
       => /\ response'.status = 200
             => /\ pc = "storeStory"
                /\ dbCount' = dbCount + 1
                /\ stored # <<>>
                /\ stored[Len(stored)].story = response'.story
                /\ response'.story.id # <<>>
                /\ response'.story.createdAt # <<>>
          /\ (pc = "storeStory" /\ dbCount' = dbCount)
             => /\ response'.status = 500
                /\ "story" \notin DOMAIN response']_vars

C24_StoryAnswered ==
    /\ response # None
    /\ response.status = 200
    /\ stored # <<>>
    /\ stored[Len(stored)].story = response.story

\* Every count that getUserStoryCount returned was the count of a query that
\* succeeded: the table starts with rows, so no such count is 0.
EveryQueryAnswered == \A r \in Concurrent : storyCount[r] # 0

\* C25: however the requests of one user interleave, the user never has
\* more than 10 stories in the window.  No story leaves the window here,
\* and the queries all succeed.
C25_QuotaNeverExceeded == EveryQueryAnswered => dbCount <= RateLimit

\* getUserStoryCount resolves in this step and its query failed: what it
\* returns is not the count of the table.
CountQueryFailed ==
    /\ pc = "getUserStoryCount"
    /\ pc' # pc
    /\ storyCount' # dbCount

\* C29: when its query fails getUserStoryCount does not throw, it returns
\* 0: the handler does not answer 429 or 500 for it, whatever the table
\* holds, and goes on to the first call of the generative model.
C29_CountFailsOpen ==
    [][CountQueryFailed
       => /\ storyCount' = 0
          /\ env.GEMINI_API_KEY
             => /\ pc' = "generateStory"
                /\ response' = None
                /\ Len(calls') = 1]_vars

\* The table holds 10 stories, the count returned was 0, and the generative
\* model is being called.
C29_GenerationAtTheLimit ==
    /\ pc = "generateStory"
    /\ storyCount = 0
    /\ dbCount = RateLimit

\* generateStoryWithRetry awaits a generation call.
GenerationAwaited == pc = "generateStory"

\* generateStoryWithRetry has returned its result, a story or a failure.
Returned == result # None

\* C30: provided every generation call settles, generateStoryWithRetry
\* returns a result once it awaits a call, and it has then made at most two
\* calls, each of them settled, whatever the replies and rejections were.
C30_RetryTerminates ==
    /\ GenerationAwaited ~> Returned
    /\ [](Returned => /\ Len(calls) <= MaxAttempts
                      /\ Len(replies) = Len(calls))

\* A failure returned after two calls: the first rejected, the second
\* answered with a reply that was not valid.
C30_FailureAfterTwoCalls ==
    /\ Returned
    /\ ~result.success
    /\ Len(calls) = MaxAttempts
    /\ replies[1].threw
    /\ ~replies[2].threw
====
